---- MODULE Spec2Model ----
(***************************************************************************)
(* Model of the Sky1 kernel-config tooling: scripts/manage-config.py       *)
(* (set / remove across track configs, dev copies, policy and README) and  *)
(* scripts/reconcile-configs.py (policy check, --fix, divergence).         *)
(*                                                                         *)
(* File contents are TLA+ strings, one character per position, "\n" the    *)
(* line terminator.  The text functions are computed the way the Python    *)
(* code computes them (splitlines / join / regex substitution per line /   *)
(* substring replacement), never on a parsed form.                         *)
(***************************************************************************)
EXTENDS Integers, Sequences, FiniteSets, TLC

VARIABLES fs, last, runs, arg, ret, procs

vars == <<fs, last, runs, arg, ret, procs>>

(***************************************************************************)
(* Python str primitives                                                   *)
(***************************************************************************)
NL == "\n"

\* s[i] as a one-character string
CharAt(s, i) == SubSeq(s, i, i)

\* s[i:] (1-based i)
From(s, i) == SubSeq(s, i, Len(s))

\* str.startswith
startswith(s, p) == Len(p) <= Len(s) /\ SubSeq(s, 1, Len(p)) = p

\* str.endswith
endswith(s, p) == Len(p) <= Len(s) /\ SubSeq(s, Len(s) - Len(p) + 1, Len(s)) = p

\* the positions at which sub occurs in s
Hits(s, sub) ==
    {i \in 1..(Len(s) - Len(sub) + 1) : SubSeq(s, i, i + Len(sub) - 1) = sub}

Min(S) == CHOOSE i \in S : \A j \in S : i <= j

\* str.find, 1-based; 0 when sub does not occur
find(s, sub) ==
    LET hits == Hits(s, sub) IN IF hits = {} THEN 0 ELSE Min(hits)

\* sub in s
contains(s, sub) == find(s, sub) # 0

\* str.removeprefix
removeprefix(s, p) == IF startswith(s, p) THEN From(s, Len(p) + 1) ELSE s

\* str.split(sep): every piece between separators, empty pieces included
\* (the pieces of s from position from on; hits are the occurrences of sep)
RECURSIVE splitFrom(_, _, _, _)
splitFrom(s, sep, hits, from) ==
    LET ahead == {i \in hits : i >= from}
    IN  IF ahead = {} THEN <<From(s, from)>>
        ELSE <<SubSeq(s, from, Min(ahead) - 1)>>
                 \o splitFrom(s, sep, hits, Min(ahead) + Len(sep))

split(s, sep) == splitFrom(s, sep, Hits(s, sep), 1)

\* str.splitlines(): like split("\n") but a final terminator opens no empty
\* line, and the empty text has no line
splitlines(s) ==
    IF s = "" THEN <<>>
    ELSE LET parts == split(s, NL)
         IN  IF parts[Len(parts)] = "" THEN SubSeq(parts, 1, Len(parts) - 1) ELSE parts

\* sep.join(lines)
RECURSIVE join(_, _)
join(lines, sep) ==
    IF lines = <<>> THEN ""
    ELSE IF Len(lines) = 1 THEN lines[1]
    ELSE lines[1] \o sep \o join(Tail(lines), sep)

\* characters str.strip() removes
Whitespace == {" ", "\t", NL}

RECURSIVE lstrip(_)
lstrip(s) == IF s # "" /\ CharAt(s, 1) \in Whitespace THEN lstrip(From(s, 2)) ELSE s

RECURSIVE rstrip(_)
rstrip(s) ==
    IF s # "" /\ CharAt(s, Len(s)) \in Whitespace THEN rstrip(SubSeq(s, 1, Len(s) - 1)) ELSE s

\* str.strip
strip(s) == lstrip(rstrip(s))

\* str.replace(old, new): non-overlapping occurrences, left to right
replace(s, old, new) == join(split(s, old), new)

\* insert x so that it becomes element number at (list.insert with index at-1)
InsertAt(lines, at, x) ==
    SubSeq(lines, 1, at - 1) \o <<x>> \o SubSeq(lines, at, Len(lines))

(***************************************************************************)
(* manage-config.py: config file operations                                *)
(***************************************************************************)
CONFIG_ == "CONFIG_"

normalize_option(name) == removeprefix(name, CONFIG_)

\* the two line patterns of set_config_line, applied to one line
\* (^...$ with re.MULTILINE delimits at "\n"; "." does not match "\n")
\* variant: the "=" after the key is not required
MatchEnabled_NoDelimiter(line, key) == startswith(line, key)

MatchEnabled(line, key) == startswith(line, key \o "=")

MatchDisabled(line, key) == line = "# " \o key \o " is not set"

\* pattern.match on one line, for pattern_enabled or pattern_disabled
Matches(line, key, pattern) ==
    IF pattern = "enabled" THEN MatchEnabled(line, key) ELSE MatchDisabled(line, key)

\* pattern.search(text), on the lines the multi-line anchors delimit
Search(segs, key, pattern) == \E i \in 1..Len(segs) : Matches(segs[i], key, pattern)

\* pattern.sub(new_line, text): every matching line becomes new_line (new_line
\* is the replacement template; it is literal for the values of this model,
\* none of which holds a backslash)
Sub(segs, key, pattern, new_line) ==
    join([i \in 1..Len(segs) |->
             IF Matches(segs[i], key, pattern) THEN new_line ELSE segs[i]], NL)

\* variant: "n" is written like any other value
NewLine_PlainN(option, value) == CONFIG_ \o option \o "=" \o value

NewLine(option, value) ==
    IF value = "n" THEN "# " \o CONFIG_ \o option \o " is not set"
    ELSE CONFIG_ \o option \o "=" \o value

\* variant: a line is appended when the option has none
set_config_line_Appends(text, option, value) ==
    LET key      == CONFIG_ \o option
        new_line == NewLine(option, value)
        segs     == split(text, NL)
    IN  IF Search(segs, key, "enabled")
        THEN LET new_text == Sub(segs, key, "enabled", new_line)
             IN  [text |-> new_text, changed |-> new_text # text]
        ELSE IF Search(segs, key, "disabled")
        THEN LET new_text == Sub(segs, key, "disabled", new_line)
             IN  [text |-> new_text, changed |-> new_text # text]
        ELSE [text |-> text \o new_line \o NL, changed |-> TRUE]

set_config_line(text, option, value) ==
    LET key      == CONFIG_ \o option
        new_line == NewLine(option, value)
        segs     == split(text, NL)
    IN  IF Search(segs, key, "enabled")
        THEN LET new_text == Sub(segs, key, "enabled", new_line)
             IN  [text |-> new_text, changed |-> new_text # text]
        ELSE IF Search(segs, key, "disabled")
        THEN LET new_text == Sub(segs, key, "disabled", new_line)
             IN  [text |-> new_text, changed |-> new_text # text]
        ELSE [text |-> text, changed |-> FALSE]


\* get_config_value on the file's text; the result is [found, value]
RECURSIVE ScanConfigValue(_, _, _)
ScanConfigValue(lines, i, key) ==
    IF i > Len(lines) THEN [found |-> FALSE, value |-> ""]
    ELSE IF startswith(lines[i], key \o "=")
    THEN [found |-> TRUE, value |-> From(lines[i], find(lines[i], "=") + 1)]
    ELSE IF lines[i] = "# " \o key \o " is not set"
    THEN [found |-> TRUE, value |-> "n"]
    ELSE ScanConfigValue(lines, i + 1, key)

get_config_value(text, option) == ScanConfigValue(splitlines(text), 1, CONFIG_ \o option)

(***************************************************************************)
(* manage-config.py: policy file operations                                *)
(***************************************************************************)
LowerCase == "abcdefghijklmnopqrstuvwxyz"
UpperCase == "ABCDEFGHIJKLMNOPQRSTUVWXYZ"

\* str.upper
RECURSIVE upper(_)
upper(s) ==
    IF s = "" THEN ""
    ELSE LET c == CharAt(s, 1)
             k == find(LowerCase, c)
         IN  (IF k = 0 THEN c ELSE CharAt(UpperCase, k)) \o upper(From(s, 2))

\* the test both set_policy_entry and remove_policy_entry make on a line
IsPolicyEntryLine(stripped) ==
    contains(stripped, "=") /\ ~startswith(stripped, "#") /\ ~startswith(stripped, "[")

\* stripped.split("=")[0].strip().upper()
PolicyLineKey(stripped) == upper(strip(split(stripped, "=")[1]))

\* variant: the entry taken is the last one keyed by bare
FirstPolicyLine_Last(lines, bare) ==
    LET hits == {i \in 1..Len(lines) :
                    /\ IsPolicyEntryLine(strip(lines[i]))
                    /\ PolicyLineKey(strip(lines[i])) = bare}
    IN  IF hits = {} THEN 0 ELSE CHOOSE i \in hits : \A j \in hits : j <= i

\* index of the first entry line keyed by bare, 0 when there is none
FirstPolicyLine(lines, bare) ==
    LET hits == {i \in 1..Len(lines) :
                    /\ IsPolicyEntryLine(strip(lines[i]))
                    /\ PolicyLineKey(strip(lines[i])) = bare}
    IN  IF hits = {} THEN 0 ELSE CHOOSE i \in hits : \A j \in hits : i <= j

\* the insertion scan of set_policy_entry: the 1-based position the new entry
\* takes, 0 for insert_at = None
RECURSIVE PolicyInsertAt(_, _, _, _, _)
PolicyInsertAt(lines, i, section_header, in_section, insert_at) ==
    IF i > Len(lines) THEN insert_at
    ELSE LET stripped == strip(lines[i])
         IN  IF stripped = section_header
             THEN PolicyInsertAt(lines, i + 1, section_header, TRUE, insert_at)
             ELSE IF in_section
             THEN IF startswith(stripped, "[") THEN i
                  ELSE IF stripped = "" THEN i
                  ELSE PolicyInsertAt(lines, i + 1, section_header, TRUE, i + 1)
             ELSE PolicyInsertAt(lines, i + 1, section_header, FALSE, insert_at)

set_policy_entry(text, option, value, section) ==
    LET bare           == upper(option)
        new_entry      == bare \o "=" \o value
        lines          == splitlines(text)
        found          == FirstPolicyLine(lines, bare)
        section_header == "[" \o section \o "]"
        insert_at      == PolicyInsertAt(lines, 1, section_header, FALSE, 0)
    IN  IF found # 0
        THEN IF strip(lines[found]) = new_entry
             THEN [text |-> text, changed |-> FALSE]
             ELSE [text |-> join([lines EXCEPT ![found] = new_entry], NL) \o NL,
                   changed |-> TRUE]
        ELSE IF insert_at # 0
        THEN [text |-> join(InsertAt(lines, insert_at, new_entry), NL) \o NL,
              changed |-> TRUE]
        ELSE [text |-> join(lines \o <<NL \o section_header, new_entry>>, NL) \o NL,
              changed |-> TRUE]

\* variant: only the first entry keyed by the option is dropped
remove_policy_entry_FirstOnly(text, option) ==
    LET bare  == upper(option)
        lines == splitlines(text)
        hits  == {i \in 1..Len(lines) :
                     /\ IsPolicyEntryLine(strip(lines[i]))
                     /\ PolicyLineKey(strip(lines[i])) = bare}
        first == IF hits = {} THEN 0 ELSE Min(hits)
        kept  == [i \in 1..(Len(lines) - (IF first = 0 THEN 0 ELSE 1)) |->
                     IF first = 0 \/ i < first THEN lines[i] ELSE lines[i + 1]]
    IN  [text |-> join(kept, NL) \o NL, changed |-> hits # {}]

remove_policy_entry(text, option) ==
    LET bare  == upper(option)
        lines == splitlines(text)
        Hit(line) == /\ IsPolicyEntryLine(strip(line))
                     /\ PolicyLineKey(strip(line)) = bare
        Keep(line) == ~Hit(line)
    IN  [text |-> join(SelectSeq(lines, Keep), NL) \o NL,
         changed |-> \E i \in 1..Len(lines) : Hit(lines[i])]

\* get_policy_entry on the policy text: [found, section, value]
RECURSIVE ScanPolicyEntry(_, _, _, _)
ScanPolicyEntry(lines, i, bare, section) ==
    IF i > Len(lines) THEN [found |-> FALSE, section |-> "", value |-> ""]
    ELSE LET line_stripped == strip(lines[i])
             eq            == find(line_stripped, "=")
         IN  IF startswith(line_stripped, "[") /\ endswith(line_stripped, "]")
             THEN ScanPolicyEntry(lines, i + 1, bare,
                                  SubSeq(line_stripped, 2, Len(line_stripped) - 1))
             ELSE IF /\ eq # 0
                     /\ ~startswith(line_stripped, "#")
                     /\ upper(strip(SubSeq(line_stripped, 1, eq - 1))) = bare
             THEN [found |-> TRUE,
                   section |-> IF section = "" THEN "unknown" ELSE section,
                   value |-> strip(From(line_stripped, eq + 1))]
             ELSE ScanPolicyEntry(lines, i + 1, bare, section)

get_policy_entry(file, option) ==
    IF ~file.exists THEN [found |-> FALSE, section |-> "", value |-> ""]
    ELSE ScanPolicyEntry(splitlines(file.text), 1, upper(option), "")

(***************************************************************************)
(* manage-config.py: README operations                                     *)
(***************************************************************************)
\* the markdown code quote U+0060; string literals here cannot hold that
\* character, so the apostrophe stands for it in every README text
BQ == "'"

ReadmeKey(option) == BQ \o option \o BQ

NewRow(option, opt_type, desc) ==
    "| " \o BQ \o option \o BQ \o " | " \o opt_type \o " | " \o desc \o " |"

\* index of the first table row that contains key, 0 when there is none
FirstReadmeRow(lines, key) ==
    LET hits == {i \in 1..Len(lines) : contains(lines[i], key) /\ startswith(lines[i], "|")}
    IN  IF hits = {} THEN 0 ELSE CHOOSE i \in hits : \A j \in hits : i <= j

\* the insertion scan of add_readme_entry: the 1-based position the new row
\* takes, 0 for insert_at = None
RECURSIVE ReadmeInsertAt(_, _, _, _, _, _)
ReadmeInsertAt(lines, i, heading_pattern, in_section, in_table, insert_at) ==
    IF i > Len(lines) THEN insert_at
    ELSE LET line == lines[i]
         IN  IF strip(line) = heading_pattern
             THEN ReadmeInsertAt(lines, i + 1, heading_pattern, TRUE, in_table, insert_at)
             ELSE IF in_section /\ (startswith(line, "|---") \/ startswith(line, "| ---"))
             THEN ReadmeInsertAt(lines, i + 1, heading_pattern, TRUE, TRUE, insert_at)
             ELSE IF in_section /\ in_table
             THEN IF startswith(line, "|")
                  THEN ReadmeInsertAt(lines, i + 1, heading_pattern, TRUE, TRUE, i + 1)
                  ELSE i
             ELSE ReadmeInsertAt(lines, i + 1, heading_pattern, in_section, in_table, insert_at)

add_readme_entry(text, option, heading, opt_type, desc) ==
    LET key       == ReadmeKey(option)
        new_row   == NewRow(option, opt_type, desc)
        lines     == splitlines(text)
        found     == IF contains(text, key) THEN FirstReadmeRow(lines, key) ELSE 0
        insert_at == ReadmeInsertAt(lines, 1, "## " \o heading, FALSE, FALSE, 0)
    IN  IF found # 0
        THEN IF strip(lines[found]) = new_row
             THEN [text |-> text, changed |-> FALSE]
             ELSE [text |-> join([lines EXCEPT ![found] = new_row], NL) \o NL,
                   changed |-> TRUE]
        ELSE IF insert_at # 0
        THEN [text |-> join(InsertAt(lines, insert_at, new_row), NL) \o NL,
              changed |-> TRUE]
        ELSE [text |-> text, changed |-> FALSE]

remove_readme_entry(text, option) ==
    LET key   == ReadmeKey(option)
        lines == splitlines(text)
        Hit(line) == contains(line, key) /\ startswith(line, "|")
        Keep(line) == ~Hit(line)
    IN  [text |-> join(SelectSeq(lines, Keep), NL) \o NL,
         changed |-> \E i \in 1..Len(lines) : Hit(lines[i])]

\* get_readme_entry on the README file: [found, row], the first table row that
\* holds the quoted option name, stripped
get_readme_entry(file, option) ==
    LET lines == splitlines(file.text)
        at    == FirstReadmeRow(lines, ReadmeKey(option))
    IN  IF ~file.exists \/ at = 0 THEN [found |-> FALSE, row |-> ""]
        ELSE [found |-> TRUE, row |-> strip(lines[at])]

(***************************************************************************)
(* manage-config.py: the files and the commands                            *)
(***************************************************************************)
\* a file of the file system: exists is FALSE for a path with no file
Missing == [exists |-> FALSE, text |-> ""]

File(text) == [exists |-> TRUE, text |-> text]

TRACK_CONFIGS ==
    <<"config/config.sky1", "config/config.sky1-latest",
      "config/config.sky1-rc", "config/config.sky1-next">>

POLICY_FILE == "config/config-policy.ini"

README_FILE == "config/README.md"

\* the names MAINLINE.glob("config.sky1*") can yield, in sorted order
DEV_CONFIGS == <<"mainline-linux/config.sky1", "mainline-linux/config.sky1-rc">>

Range(seq) == {seq[i] : i \in 1..Len(seq)}

Paths == Range(TRACK_CONFIGS) \cup Range(DEV_CONFIGS) \cup {POLICY_FILE, README_FILE}

\* find_dev_configs: the dev copies that exist, sorted
find_dev_configs(f) == SelectSeq(DEV_CONFIGS, LAMBDA p : f[p].exists)

\* path.write_text(new_text) for every record of the plan, in plan order
RECURSIVE WriteAll(_, _)
WriteAll(f, changes) ==
    IF changes = <<>> THEN f
    ELSE WriteAll([f EXCEPT ![changes[1].path] = File(changes[1].text)], Tail(changes))

\* the loop of cmd_set over the track configs: the ChangeRecords, in order
RECURSIVE TrackChanges(_, _, _, _)
TrackChanges(f, paths, option, value) ==
    IF paths = <<>> THEN <<>>
    ELSE LET path == paths[1]
             r    == set_config_line(f[path].text, option, value)
         IN  (IF f[path].exists /\ r.changed
              THEN <<[path |-> path, text |-> r.text]>>
              ELSE <<>>) \o TrackChanges(f, Tail(paths), option, value)

\* the tracks cmd_set warns about: file exists, nothing changed, no value found
TrackWarnings(f, option, value) ==
    SelectSeq(TRACK_CONFIGS,
              LAMBDA path : /\ f[path].exists
                            /\ ~set_config_line(f[path].text, option, value).changed
                            /\ ~get_config_value(f[path].text, option).found)

\* the planning part of cmd_set; crashed is the FileNotFoundError of a
\* read_text() on a missing policy file or README
PlanSet(f, option, value, policy_section, doc_heading, doc_type, doc_desc) ==
    LET tracks    == TrackChanges(f, TRACK_CONFIGS, option, value)
        devs      == TrackChanges(f, find_dev_configs(f), option, value)
        want_pol  == policy_section # ""
        want_doc  == doc_heading # "" /\ doc_type # "" /\ doc_desc # ""
        pol       == set_policy_entry(f[POLICY_FILE].text, option, value, policy_section)
        doc       == add_readme_entry(f[README_FILE].text, option, doc_heading,
                                      doc_type, doc_desc)
        pol_crash == want_pol /\ ~f[POLICY_FILE].exists
        doc_crash == ~pol_crash /\ want_doc /\ ~f[README_FILE].exists
        pol_chg   == IF want_pol /\ ~pol_crash /\ pol.changed
                     THEN <<[path |-> POLICY_FILE, text |-> pol.text]>> ELSE <<>>
        doc_chg   == IF want_doc /\ ~pol_crash /\ ~doc_crash /\ doc.changed
                     THEN <<[path |-> README_FILE, text |-> doc.text]>> ELSE <<>>
    IN  [changes  |-> tracks \o devs \o pol_chg \o doc_chg,
         warnings |-> TrackWarnings(f, option, value),
         crashed  |-> pol_crash \/ doc_crash]

\* variant: remove also turns the option off in every track config
PlanRemove_TouchesTracks(f, option, policy, doc) ==
    LET pol     == remove_policy_entry(f[POLICY_FILE].text, option)
        rd      == remove_readme_entry(f[README_FILE].text, option)
        pol_chg == IF policy /\ f[POLICY_FILE].exists /\ pol.changed
                   THEN <<[path |-> POLICY_FILE, text |-> pol.text]>> ELSE <<>>
        doc_chg == IF doc /\ f[README_FILE].exists /\ rd.changed
                   THEN <<[path |-> README_FILE, text |-> rd.text]>> ELSE <<>>
    IN  [changes |-> TrackChanges(f, TRACK_CONFIGS, option, "n") \o pol_chg \o doc_chg,
         warnings |-> <<>>, crashed |-> FALSE]

\* the planning part of cmd_remove
PlanRemove(f, option, policy, doc) ==
    LET pol     == remove_policy_entry(f[POLICY_FILE].text, option)
        rd      == remove_readme_entry(f[README_FILE].text, option)
        pol_chg == IF policy /\ f[POLICY_FILE].exists /\ pol.changed
                   THEN <<[path |-> POLICY_FILE, text |-> pol.text]>> ELSE <<>>
        doc_chg == IF doc /\ f[README_FILE].exists /\ rd.changed
                   THEN <<[path |-> README_FILE, text |-> rd.text]>> ELSE <<>>
    IN  [changes |-> pol_chg \o doc_chg, warnings |-> <<>>, crashed |-> FALSE]

\* the report/apply part shared by cmd_set and cmd_remove: what the command
\* did ("crash", "nothing", "dryrun", "applied"), its exit status, the files
Outcome(plan, apply) ==
    IF plan.crashed THEN "crash"
    ELSE IF plan.changes = <<>> THEN "nothing"
    ELSE IF apply THEN "applied"
    ELSE "dryrun"

\* variant: the plan is written whether or not --apply was given
FilesAfter_IgnoresApply(f, plan, apply) ==
    IF plan.crashed THEN f ELSE WriteAll(f, plan.changes)

FilesAfter(f, plan, apply) ==
    IF Outcome(plan, apply) = "applied" THEN WriteAll(f, plan.changes) ELSE f

ExitStatus(plan) == IF plan.crashed THEN 1 ELSE 0

\* variant: a failed write undoes the writes made before it
FilesAfterFailure_RollsBack(f, changes, fail, damaged) == f

\* the files when path.write_text raises on record number fail of the apply
\* loop: the records before it are written, the loop is left by the
\* exception; the file of the failing record keeps its content when open()
\* failed and is left truncated (damaged) when the write after it failed
FilesAfterFailure(f, changes, fail, damaged) ==
    LET written == WriteAll(f, SubSeq(changes, 1, fail - 1))
    IN  IF damaged THEN [written EXCEPT ![changes[fail].path] = File("")] ELSE written

\* the writes of a plan can fail only when there are writes: --apply, a plan
\* that was reported, and a record number fail; fails is the set of record
\* numbers the run may fail at, 0 standing for no failure
CanFail(plan, apply, fail) ==
    fail = 0 \/ (apply /\ ~plan.crashed /\ fail <= Len(plan.changes))

\* the text cmd_show prints for the value get_config_value returned
ShowDisplay(key, val) ==
    IF val.found /\ val.value # "" /\ val.value # "n" THEN key \o "=" \o val.value
    ELSE IF val.found /\ val.value = "n" THEN "# " \o key \o " is not set"
    ELSE "(not found)"

\* cmd_show: one line per existing track and dev copy, the policy entry and
\* the README row
Show(f, option) ==
    LET key     == CONFIG_ \o option
        Line(p) == [path |-> p,
                    display |-> ShowDisplay(key, get_config_value(f[p].text, option))]
        tracks  == SelectSeq(TRACK_CONFIGS, LAMBDA p : f[p].exists)
        devs    == find_dev_configs(f)
    IN  [tracks |-> [k \in 1..Len(tracks) |-> Line(tracks[k])],
         devs   |-> [k \in 1..Len(devs) |-> Line(devs[k])],
         policy |-> get_policy_entry(f[POLICY_FILE], option),
         readme |-> get_readme_entry(f[README_FILE], option),
         exit   |-> 0]

MaxRuns == 2

CmdShow(name) ==
    /\ runs < MaxRuns
    /\ \E r \in {Show(fs, normalize_option(name))} :
           last' = [cmd     |-> "show",
                    args    |-> <<name>>,
                    apply   |-> FALSE,
                    tracks  |-> r.tracks,
                    devs    |-> r.devs,
                    policy  |-> r.policy,
                    readme  |-> r.readme,
                    outcome |-> "shown",
                    exit    |-> r.exit,
                    before  |-> fs]
    /\ runs' = runs + 1
    /\ UNCHANGED <<fs, arg, ret, procs>>


CmdSet(name, value, policy_section, doc_heading, doc_type, doc_desc, apply, fails) ==
    /\ runs < MaxRuns
    /\ \E plan \in {PlanSet(fs, normalize_option(name), value, policy_section,
                             doc_heading, doc_type, doc_desc)} :
       \E fail \in fails, damaged \in BOOLEAN :
           /\ CanFail(plan, apply, fail)
           /\ fail = 0 => ~damaged
           /\ fs' = IF fail = 0 THEN FilesAfter(fs, plan, apply)
                    ELSE FilesAfterFailure(fs, plan.changes, fail, damaged)
           /\ last' = [cmd      |-> "set",
                       args     |-> <<name, value, policy_section,
                                      doc_heading, doc_type, doc_desc>>,
                       apply    |-> apply,
                       changes  |-> plan.changes,
                       warnings |-> plan.warnings,
                       outcome  |-> IF fail = 0 THEN Outcome(plan, apply) ELSE "failed",
                       exit     |-> IF fail = 0 THEN ExitStatus(plan) ELSE 1,
                       failed   |-> fail,
                       before   |-> fs]
    /\ runs' = runs + 1
    /\ UNCHANGED <<arg, ret, procs>>

CmdRemove(name, policy, doc, apply, fails) ==
    /\ runs < MaxRuns
    /\ policy \/ doc
    /\ \E plan \in {PlanRemove(fs, normalize_option(name), policy, doc)} :
       \E fail \in fails, damaged \in BOOLEAN :
           /\ CanFail(plan, apply, fail)
           /\ fail = 0 => ~damaged
           /\ fs' = IF fail = 0 THEN FilesAfter(fs, plan, apply)
                    ELSE FilesAfterFailure(fs, plan.changes, fail, damaged)
           /\ last' = [cmd      |-> "remove",
                       args     |-> <<name, policy, doc>>,
                       apply    |-> apply,
                       changes  |-> plan.changes,
                       warnings |-> plan.warnings,
                       outcome  |-> IF fail = 0 THEN Outcome(plan, apply) ELSE "failed",
                       exit     |-> IF fail = 0 THEN ExitStatus(plan) ELSE 1,
                       failed   |-> fail,
                       before   |-> fs]
    /\ runs' = runs + 1
    /\ UNCHANGED <<arg, ret, procs>>

(***************************************************************************)
(* reconcile-configs.py                                                    *)
(***************************************************************************)
\* TRACKS, in declaration order: label and file
TRACKS ==
    <<[label |-> "LTS",    file |-> "config/config.sky1"],
      [label |-> "Latest", file |-> "config/config.sky1-latest"],
      [label |-> "RC",     file |-> "config/config.sky1-rc"],
      [label |-> "Next",   file |-> "config/config.sky1-next"]>>

\* code points of the characters that occur in option names, in increasing order
CodeOrder == "0123456789ABCDEFGHIJKLMNOPQRSTUVWXYZ_abcdefghijklmnopqrstuvwxyz"

\* a < b for Python strings: the first differing character decides, a proper
\* prefix is smaller
StrLess(a, b) ==
    LET n     == IF Len(a) < Len(b) THEN Len(a) ELSE Len(b)
        diffs == {i \in 1..n : CharAt(a, i) # CharAt(b, i)}
    IN  IF diffs = {} THEN Len(a) < Len(b)
        ELSE find(CodeOrder, CharAt(a, Min(diffs))) < find(CodeOrder, CharAt(b, Min(diffs)))

\* sorted(S) for a set of strings
RECURSIVE sorted(_)
sorted(S) ==
    IF S = {} THEN <<>>
    ELSE LET m == CHOOSE x \in S : \A y \in S \ {x} : StrLess(x, y)
         IN  <<m>> \o sorted(S \ {m})

\* dict.get: [found, value]
Get(dict, key) ==
    IF key \in DOMAIN dict THEN [found |-> TRUE, value |-> dict[key]]
    ELSE [found |-> FALSE, value |-> ""]

\* a dict from a sequence of [key, value] assignments: the last one wins
DictOf(entries) ==
    [k \in {entries[i].key : i \in 1..Len(entries)} |->
        entries[CHOOSE i \in 1..Len(entries) :
                    /\ entries[i].key = k
                    /\ \A j \in (i + 1)..Len(entries) : entries[j].key # k].value]

\* line.split()[1] of a line that starts with "# CONFIG_"
SecondWord(line) ==
    LET rest == From(line, 3)
        ends == {i \in 1..Len(rest) : CharAt(rest, i) \in Whitespace}
    IN  IF ends = {} THEN rest ELSE SubSeq(rest, 1, Min(ends) - 1)

\* the assignment one line of a config makes in parse_config, if any
ParseConfigLine(line) ==
    IF startswith(line, "CONFIG_")
    THEN LET eq == find(line, "=")
         IN  <<[key   |-> IF eq = 0 THEN line ELSE SubSeq(line, 1, eq - 1),
                value |-> IF eq = 0 THEN "" ELSE From(line, eq + 1)]>>
    ELSE IF startswith(line, "# CONFIG_") /\ endswith(line, " is not set")
    THEN <<[key |-> SecondWord(line), value |-> "n"]>>
    ELSE <<>>

RECURSIVE Flatten(_)
Flatten(seqs) == IF seqs = <<>> THEN <<>> ELSE seqs[1] \o Flatten(Tail(seqs))

parse_config(text) ==
    LET lines == splitlines(text)
    IN  DictOf(Flatten([i \in 1..Len(lines) |-> ParseConfigLine(lines[i])]))

\* configparser, for the files this model reads: "[section]" headers,
\* "key = value" or "key: value" lines, blank lines and "#" / ";" comment
\* lines.  One line is classified as follows.
IniKind(stripped) ==
    IF stripped = "" \/ startswith(stripped, "#") \/ startswith(stripped, ";") THEN "skip"
    ELSE IF startswith(stripped, "[") /\ endswith(stripped, "]") THEN "header"
    ELSE "option"

\* position of the first "=" or ":" of an option line, 0 when it has none
IniDelimiter(stripped) ==
    LET ds == Hits(stripped, "=") \cup Hits(stripped, ":")
    IN  IF ds = {} THEN 0 ELSE Min(ds)

\* the section a line belongs to: the last header above it ("" when none)
IniSection(lines, i) ==
    LET heads == {j \in 1..(i - 1) : IniKind(strip(lines[j])) = "header"}
    IN  IF heads = {} THEN "" ELSE strip(lines[CHOOSE j \in heads : \A k \in heads : k <= j])

\* parse_policy: [error, policy]; error stands for the exception configparser
\* raises on an option outside a section, an option without delimiter, a
\* repeated section or an option repeated inside its section
parse_policy(file) ==
    IF ~file.exists THEN [error |-> FALSE, policy |-> <<>>]
    ELSE
    LET lines   == splitlines(file.text)
        opts    == {i \in 1..Len(lines) : IniKind(strip(lines[i])) = "option"}
        heads   == {i \in 1..Len(lines) : IniKind(strip(lines[i])) = "header"}
        Key(i)  == upper(strip(SubSeq(strip(lines[i]), 1, IniDelimiter(strip(lines[i])) - 1)))
        Val(i)  == strip(From(strip(lines[i]), IniDelimiter(strip(lines[i])) + 1))
        bad     == \/ \E i \in opts : IniDelimiter(strip(lines[i])) = 0 \/ IniSection(lines, i) = ""
                   \/ \E i, j \in heads : i < j /\ strip(lines[i]) = strip(lines[j])
                   \/ \E i, j \in opts : /\ i < j
                                         /\ Key(i) = Key(j)
                                         /\ IniSection(lines, i) = IniSection(lines, j)
        entries == Flatten([i \in 1..Len(lines) |->
                               IF i \in opts
                               THEN <<[key |-> CONFIG_ \o Key(i), value |-> Val(i)]>>
                               ELSE <<>>])
    IN  IF bad THEN [error |-> TRUE, policy |-> <<>>]
        ELSE [error |-> FALSE, policy |-> DictOf(entries)]

sky1_markers == <<"CIX", "SKY1", "LINLON", "TRILIN", "PANTHOR", "ARMCHINA", "CDNSP_SKY1">>

\* variant: the marker must start the name
is_sky1_option_Prefix(opt) ==
    LET name == removeprefix(opt, CONFIG_)
    IN  \E i \in 1..Len(sky1_markers) : startswith(name, sky1_markers[i])

is_sky1_option(opt) ==
    LET name == removeprefix(opt, CONFIG_)
    IN  \E i \in 1..Len(sky1_markers) : contains(name, sky1_markers[i])

\* the tracks whose file exists, in declaration order, each with its parsed
\* config (the dict configs of cmd_reconcile)
LoadConfigs(f) ==
    LET present == SelectSeq(TRACKS, LAMBDA t : f[t.file].exists)
    IN  [i \in 1..Len(present) |->
            [label |-> present[i].label, file |-> present[i].file,
             cfg   |-> parse_config(f[present[i].file].text)]]

\* the pairs the two nested loops visit: options sorted, then tracks in order
PolicyPairs(policy, configs) ==
    LET opts == sorted(DOMAIN policy)
        m    == Len(configs)
    IN  [k \in 1..(Len(opts) * m) |->
            [opt |-> opts[((k - 1) \div m) + 1], track |-> configs[((k - 1) % m) + 1]]]

\* variant: an option the track lacks is not reported
ViolationOf_NoMissing(pair, policy) ==
    LET actual == Get(pair.track.cfg, pair.opt)
    IN  IF actual.found /\ actual.value # policy[pair.opt]
        THEN <<[file |-> pair.track.file, label |-> pair.track.label, opt |-> pair.opt,
                kind |-> "MISMATCH", actual |-> actual.value, required |-> policy[pair.opt]]>>
        ELSE <<>>

\* the violation the policy check records for one pair, if any
ViolationOf(pair, policy) ==
    LET actual == Get(pair.track.cfg, pair.opt)
    IN  IF ~actual.found
        THEN <<[file |-> pair.track.file, label |-> pair.track.label, opt |-> pair.opt,
                kind |-> "MISSING", actual |-> "", required |-> policy[pair.opt]]>>
        ELSE IF actual.value # policy[pair.opt]
        THEN <<[file |-> pair.track.file, label |-> pair.track.label, opt |-> pair.opt,
                kind |-> "MISMATCH", actual |-> actual.value, required |-> policy[pair.opt]]>>
        ELSE <<>>

Violations(policy, configs) ==
    LET pairs == PolicyPairs(policy, configs)
    IN  Flatten([k \in 1..Len(pairs) |-> ViolationOf(pairs[k], policy)])

\* variant: a missing option gets its line appended to the track
RECURSIVE FixLoop_AddsMissing(_, _, _)
FixLoop_AddsMissing(st, pairs, policy) ==
    IF pairs = <<>> THEN st
    ELSE LET pair   == pairs[1]
             actual == Get(pair.track.cfg, pair.opt)
             text   == st.files[pair.track.file].text
             old    == pair.opt \o "=" \o actual.value
             new    == pair.opt \o "=" \o policy[pair.opt]
         IN  IF ~actual.found
             THEN FixLoop_AddsMissing(
                      [files |-> [st.files EXCEPT ![pair.track.file] =
                                     File(text \o new \o NL)],
                       fixes |-> Append(st.fixes,
                                        [file |-> pair.track.file, opt |-> pair.opt])],
                      Tail(pairs), policy)
             ELSE IF actual.value # policy[pair.opt] /\ contains(text, old)
             THEN FixLoop_AddsMissing(
                      [files |-> [st.files EXCEPT ![pair.track.file] =
                                     File(replace(text, old, new))],
                       fixes |-> Append(st.fixes,
                                        [file |-> pair.track.file, opt |-> pair.opt])],
                      Tail(pairs), policy)
             ELSE FixLoop_AddsMissing(st, Tail(pairs), policy)

\* the --fix loop: st is [files, fixes]; every pair whose option is present
\* with another value has "opt=actual" replaced by "opt=required" in the
\* track's text, when that text occurs in it
RECURSIVE FixLoop(_, _, _)
FixLoop(st, pairs, policy) ==
    IF pairs = <<>> THEN st
    ELSE LET pair   == pairs[1]
             actual == Get(pair.track.cfg, pair.opt)
             text   == st.files[pair.track.file].text
             old    == pair.opt \o "=" \o actual.value
             new    == pair.opt \o "=" \o policy[pair.opt]
         IN  IF actual.found /\ actual.value # policy[pair.opt] /\ contains(text, old)
             THEN FixLoop([files |-> [st.files EXCEPT ![pair.track.file] =
                                         File(replace(text, old, new))],
                           fixes |-> Append(st.fixes,
                                            [file |-> pair.track.file, opt |-> pair.opt])],
                          Tail(pairs), policy)
             ELSE FixLoop(st, Tail(pairs), policy)

\* the Sky1-specific options of all loaded tracks
Sky1Opts(configs) ==
    UNION {{k \in DOMAIN configs[i].cfg : is_sky1_option(k)} : i \in 1..Len(configs)}

\* the row of one Sky1-specific option: per-track values ("-" when the track
\* lacks it) and whether it is marked divergent (" ***")
DivergenceRow(opt, configs) ==
    LET vals == [i \in 1..Len(configs) |->
                    IF opt \in DOMAIN configs[i].cfg THEN configs[i].cfg[opt] ELSE "-"]
    IN  [opt |-> opt, vals |-> vals, marker |-> Cardinality(Range(vals)) > 1]

\* the list divergent: rows that differ, every row under --verbose
Divergent(configs, verbose) ==
    LET opts == sorted(Sky1Opts(configs))
    IN  SelectSeq([k \in 1..Len(opts) |-> DivergenceRow(opts[k], configs)],
                  LAMBDA row : row.marker \/ verbose)

\* cmd_reconcile as a whole: what it reports, its exit status, the files
Reconcile(f, fix, verbose) ==
    LET configs    == LoadConfigs(f)
        parsed     == parse_policy(f[POLICY_FILE])
        policy     == parsed.policy
        violations == Violations(policy, configs)
        fixed      == IF fix /\ violations # <<>>
                      THEN FixLoop([files |-> f, fixes |-> <<>>],
                                   PolicyPairs(policy, configs), policy)
                      ELSE [files |-> f, fixes |-> <<>>]
        none       == [outcome |-> "", loaded |-> <<>>, violations |-> <<>>,
                       fixes |-> <<>>, divergent |-> <<>>, sky1 |-> {},
                       exit |-> 0, files |-> f]
    IN  IF Len(configs) < 2
        THEN [none EXCEPT !.outcome = "need2",
                          !.loaded = [i \in 1..Len(configs) |-> configs[i].label]]
        ELSE IF parsed.error
        THEN [none EXCEPT !.outcome = "crash", !.exit = 1,
                          !.loaded = [i \in 1..Len(configs) |-> configs[i].label]]
        ELSE [outcome    |-> "done",
              loaded     |-> [i \in 1..Len(configs) |-> configs[i].label],
              violations |-> violations,
              fixes      |-> fixed.fixes,
              divergent  |-> Divergent(configs, verbose),
              sky1       |-> Sky1Opts(configs),
              exit       |-> IF violations # <<>> /\ ~fix THEN 1 ELSE 0,
              files      |-> fixed.files]

CmdReconcile(fix, verbose) ==
    /\ runs < MaxRuns
    /\ \E r \in {Reconcile(fs, fix, verbose)} :
           /\ fs' = r.files
           /\ last' = [cmd        |-> "reconcile",
                       fix        |-> fix,
                       verbose    |-> verbose,
                       outcome    |-> r.outcome,
                       loaded     |-> r.loaded,
                       violations |-> r.violations,
                       fixes      |-> r.fixes,
                       divergent  |-> r.divergent,
                       sky1       |-> r.sky1,
                       exit       |-> r.exit,
                       before     |-> fs]
    /\ runs' = runs + 1
    /\ UNCHANGED <<arg, ret, procs>>

\* IGNORE_PATTERNS: each is "^" followed by this literal text
IGNORE_PATTERNS ==
    <<"CONFIG_CC_VERSION_TEXT=", "CONFIG_GCC_VERSION=", "CONFIG_LD_VERSION=",
      "CONFIG_CLANG_VERSION=", "CONFIG_AS_VERSION=", "CONFIG_PAHOLE_VERSION=",
      "CONFIG_RUSTC_VERSION=", "CONFIG_BINDGEN_VERSION=",
      "CONFIG_KERNEL_VERSION_GENERATION=">>

\* SUBSYSTEM_PREFIXES, in declaration order
SUBSYSTEM_PREFIXES ==
    <<[prefix |-> "DRM_",       category |-> "Display/GPU"],
      [prefix |-> "SND_",       category |-> "Audio"],
      [prefix |-> "NET_",       category |-> "Network"],
      [prefix |-> "NFT_",       category |-> "Network/Netfilter"],
      [prefix |-> "NF_",        category |-> "Network/Netfilter"],
      [prefix |-> "CRYPTO_",    category |-> "Crypto"],
      [prefix |-> "SECURITY_",  category |-> "Security"],
      [prefix |-> "USB_",       category |-> "USB"],
      [prefix |-> "PHY_",       category |-> "PHY"],
      [prefix |-> "PCI_",       category |-> "PCI"],
      [prefix |-> "ARM64_",     category |-> "ARM64"],
      [prefix |-> "ARCH_",      category |-> "Architecture"],
      [prefix |-> "CIX_",       category |-> "Sky1"],
      [prefix |-> "SKY1_",      category |-> "Sky1"],
      [prefix |-> "LINLON",     category |-> "Sky1"],
      [prefix |-> "TRILIN",     category |-> "Sky1"],
      [prefix |-> "PANTHOR",    category |-> "Sky1"],
      [prefix |-> "ARMCHINA",   category |-> "Sky1"],
      [prefix |-> "CDNSP_SKY1", category |-> "Sky1"]>>

\* re.match(pat, line) for some pattern of IGNORE_PATTERNS
is_ignored(line) == \E i \in 1..Len(IGNORE_PATTERNS) : startswith(line, IGNORE_PATTERNS[i])

\* the category of the first prefix, in declaration order, the bare name starts with
categorize_option(opt) ==
    LET name == removeprefix(opt, CONFIG_)
        hits == {i \in 1..Len(SUBSYSTEM_PREFIXES) : startswith(name, SUBSYSTEM_PREFIXES[i].prefix)}
    IN  IF hits = {} THEN "Other" ELSE SUBSYSTEM_PREFIXES[Min(hits)].category

\* the categories cmd_review prints first, in this order
ReviewPriority == <<"Sky1", "Display/GPU", "Audio", "USB", "PCI", "PHY", "Network">>

\* sorted(d.items()) of a dict with string keys
SortedItems(dict) ==
    LET keys == sorted(DOMAIN dict)
    IN  [k \in 1..Len(keys) |-> [opt |-> keys[k], val |-> dict[keys[k]]]]

\* the dicts added, removed and changed of cmd_review
ReviewAdded(old, new) ==
    LET keys == {k \in DOMAIN new : k \notin DOMAIN old /\ ~is_ignored(k \o "=" \o new[k])}
    IN  [k \in keys |-> new[k]]

ReviewRemoved(old, new) ==
    LET keys == {k \in DOMAIN old : k \notin DOMAIN new /\ ~is_ignored(k \o "=" \o old[k])}
    IN  [k \in keys |-> old[k]]

\* variant: changed is every key present in both configs, equal values included
ReviewChanged_AllCommon(old, new) ==
    LET keys == {k \in DOMAIN old : k \in DOMAIN new /\ ~is_ignored(k \o "=" \o old[k])}
    IN  [k \in keys |-> [old |-> old[k], new |-> new[k]]]

ReviewChanged(old, new) ==
    LET keys == {k \in DOMAIN old : /\ k \in DOMAIN new
                                    /\ old[k] # new[k]
                                    /\ ~is_ignored(k \o "=" \o old[k])}
    IN  [k \in keys |-> [old |-> old[k], new |-> new[k]]]

\* one printed "[category]" block: all its items, the items shown (the first
\* five when a category outside the priority list has more than ten) and the
\* number announced by the "... (N more)" line, 0 when there is no such line
ReviewSection(cat, items, priority) ==
    [cat   |-> cat,
     items |-> items,
     shown |-> IF priority \/ Len(items) <= 10 THEN items ELSE SubSeq(items, 1, 5),
     more  |-> IF priority \/ Len(items) <= 10 THEN 0 ELSE Len(items) - 5]

\* the NEW options report: priority categories that occur, in priority order,
\* then the other categories sorted by name
ReviewSections(added) ==
    LET items    == SortedItems(added)
        cats     == {categorize_option(k) : k \in DOMAIN added}
        Of(cat)  == SelectSeq(items, LAMBDA it : categorize_option(it.opt) = cat)
        first    == SelectSeq(ReviewPriority, LAMBDA cat : cat \in cats)
        rest     == sorted(cats \ Range(ReviewPriority))
    IN  [k \in 1..Len(first) |-> ReviewSection(first[k], Of(first[k]), TRUE)]
        \o [k \in 1..Len(rest) |-> ReviewSection(rest[k], Of(rest[k]), FALSE)]

\* cmd_review as a whole
Review(f, old_path, new_path) ==
    LET old     == parse_config(f[old_path].text)
        new     == parse_config(f[new_path].text)
        added   == ReviewAdded(old, new)
        removed == ReviewRemoved(old, new)
        changed == ReviewChanged(old, new)
        none    == [outcome |-> "notfound", exit |-> 1, added |-> <<>>, removed |-> <<>>,
                    changed |-> <<>>, sections |-> <<>>, was_enabled |-> <<>>,
                    was_disabled |-> 0, sky1_flagged |-> {}, saved |-> FALSE,
                    summary |-> [added |-> 0, removed |-> 0, changed |-> 0]]
    IN  IF ~f[old_path].exists \/ ~f[new_path].exists THEN none
        ELSE [outcome      |-> "done",
              exit         |-> 0,
              added        |-> added,
              removed      |-> removed,
              changed      |-> changed,
              sections     |-> ReviewSections(added),
              was_enabled  |-> SelectSeq(SortedItems(removed),
                                         LAMBDA it : it.val \in {"y", "m"}),
              was_disabled |-> Cardinality({k \in DOMAIN removed : removed[k] = "n"}),
              sky1_flagged |-> {k \in DOMAIN changed : is_sky1_option(k)},
              saved        |-> added # <<>> \/ removed # <<>> \/ changed # <<>>,
              summary      |-> [added   |-> Cardinality(DOMAIN added),
                                removed |-> Cardinality(DOMAIN removed),
                                changed |-> Cardinality(DOMAIN changed)]]

CmdReview(old_path, new_path) ==
    /\ runs < MaxRuns
    /\ \E r \in {Review(fs, old_path, new_path)} :
           last' = [cmd          |-> "review",
                    old_path     |-> old_path,
                    new_path     |-> new_path,
                    outcome      |-> r.outcome,
                    exit         |-> r.exit,
                    added        |-> r.added,
                    removed      |-> r.removed,
                    changed      |-> r.changed,
                    sections     |-> r.sections,
                    was_enabled  |-> r.was_enabled,
                    was_disabled |-> r.was_disabled,
                    sky1_flagged |-> r.sky1_flagged,
                    saved        |-> r.saved,
                    summary      |-> r.summary,
                    before       |-> fs]
    /\ runs' = runs + 1
    /\ UNCHANGED <<fs, arg, ret, procs>>

(***************************************************************************)
(* The file systems and command lines the commands are run on              *)
(***************************************************************************)
NoArg == [fn |-> "none", text |-> "", option |-> "", value |-> "", section |-> ""]

NoRet == [done |-> FALSE, text |-> "", changed |-> FALSE]

NoLast == [cmd |-> "none"]

NoProcs == <<>>

TrackEnabled == "CONFIG_USB=y\nCONFIG_USB_UAS=y\nCONFIG_USB_UAS_DEBUG=y\n"

TrackNotSet == "CONFIG_USB=y\n# CONFIG_USB_UAS is not set\n"

TrackAbsent == "CONFIG_USB=y\n"

\* the four track configs followed by the two dev copies
ConfigLayouts ==
    << <<File(TrackEnabled), File(TrackNotSet), File(TrackAbsent), Missing,
        File(TrackEnabled), Missing>>,
      <<File(TrackNotSet), File(TrackNotSet), Missing, Missing,
        Missing, Missing>>,
      <<Missing, Missing, Missing, Missing,
        Missing, File(TrackAbsent)>>,
      <<File(TrackAbsent), File(TrackEnabled), File(TrackEnabled), File(TrackNotSet),
        File(TrackNotSet), File(TrackAbsent)>> >>

PolicyFiles ==
    << File("[usb]\nUSB_HID=y\n"),
       Missing,
       File("[usb]\n"),
       File("[usb]\nUSB_UAS=m\n"),
       File("[net]\nNET_FOO=y\n") >>

ReadmeText(rows) == "## USB\n| Option | Type | Description |\n|---|---|---|\n" \o rows \o "\n## Audio\n"

ReadmeFiles ==
    << Missing,
      File(ReadmeText("| 'USB_HID' | bool | HID |\n")),
      File(ReadmeText("| 'USB_UAS' | bool | old |\n")) >>

\* every layout of config files beside the first policy and README, and the
\* first layout beside every policy and README
FileSystems ==
    {<<l, 1, 2>> : l \in 1..Len(ConfigLayouts)}
        \cup {<<1, p, r>> : p \in 1..Len(PolicyFiles), r \in 1..Len(ReadmeFiles)}

FileSystem(layout, policy, readme) ==
    [p \in Paths |->
        IF p = POLICY_FILE THEN policy
        ELSE IF p = README_FILE THEN readme
        ELSE IF \E i \in 1..4 : TRACK_CONFIGS[i] = p
        THEN layout[CHOOSE i \in 1..4 : TRACK_CONFIGS[i] = p]
        ELSE layout[4 + CHOOSE i \in 1..2 : DEV_CONFIGS[i] = p]]

SetNames == {"USB_UAS"}

ShowNames == {"CONFIG_USB_UAS"}

SetValues == {"m", "n"}

SetPolicySections == {"", "usb"}

\* --doc HEADING --type T --desc D: all three or none (main rejects the rest)
SetDocs == {<<"", "", "">>, <<"USB", "module", "UAS">>}

Init ==
    /\ \E c \in FileSystems :
          fs = FileSystem(ConfigLayouts[c[1]], PolicyFiles[c[2]], ReadmeFiles[c[3]])
    /\ last = NoLast
    /\ runs = 0
    /\ arg = NoArg
    /\ ret = NoRet
    /\ procs = NoProcs

Next ==
    \/ \E name \in SetNames, value \in SetValues, section \in SetPolicySections,
          doc \in SetDocs, apply \in BOOLEAN :
          CmdSet(name, value, section, doc[1], doc[2], doc[3], apply, {0})
    \/ \E name \in SetNames, policy \in BOOLEAN, doc \in BOOLEAN, apply \in BOOLEAN :
          CmdRemove(name, policy, doc, apply, {0})
    \/ \E name \in ShowNames : CmdShow(name)

Spec == Init /\ [][Next]_vars

(***************************************************************************)
(* The config files show is run on                                         *)
(***************************************************************************)
\* a config whose line of the option has an empty value
TrackEmpty == "CONFIG_USB=y\nCONFIG_USB_UAS=\nCONFIG_USB_UAS_DEBUG=y\n"

ShowConfigs ==
    {Missing, File(TrackEnabled), File(TrackNotSet), File(TrackAbsent), File(TrackEmpty)}

InitShow ==
    /\ \E lts \in ShowConfigs, rc \in ShowConfigs,
          dev \in {Missing, File(TrackNotSet), File(TrackEmpty)} :
          fs = FileSystem(<<lts, Missing, rc, Missing, dev, Missing>>,
                          PolicyFiles[4], ReadmeFiles[3])
    /\ last = NoLast
    /\ runs = 0
    /\ arg = NoArg
    /\ ret = NoRet
    /\ procs = NoProcs

NextShow == \E name \in ShowNames : CmdShow(name)

SpecShow == InitShow /\ [][NextShow]_vars

(***************************************************************************)
(* set and remove --apply with writes that can fail                        *)
(***************************************************************************)
\* the highest record number whose write is made to fail
MaxFail == 3

\* file systems with plans of several records: every track and dev copy with
\* its own state of the option, the policy and README with or without it
ApplyFileSystems == {<<1, 1, 2>>, <<1, 4, 3>>, <<4, 1, 2>>}

InitApply ==
    /\ \E c \in ApplyFileSystems :
          fs = FileSystem(ConfigLayouts[c[1]], PolicyFiles[c[2]], ReadmeFiles[c[3]])
    /\ last = NoLast
    /\ runs = 0
    /\ arg = NoArg
    /\ ret = NoRet
    /\ procs = NoProcs

NextApply ==
    \/ \E name \in SetNames, value \in SetValues, section \in SetPolicySections,
          doc \in SetDocs :
          CmdSet(name, value, section, doc[1], doc[2], doc[3], TRUE, 0..MaxFail)
    \/ \E name \in SetNames, policy \in BOOLEAN, doc \in BOOLEAN :
          CmdRemove(name, policy, doc, TRUE, 0..MaxFail)

SpecApply == InitApply /\ [][NextApply]_vars

(***************************************************************************)
(* Two set --apply invocations running at the same time                    *)
(***************************************************************************)
\* the concurrent invocations
RaceProcs == {1, 2}

\* the one track config that exists; every other file is absent
RaceTexts ==
    { "CONFIG_USB=y\n# CONFIG_USB_UAS is not set\n# CONFIG_USB_HID is not set\n",
      "CONFIG_USB_UAS=m\nCONFIG_USB_HID=y\n" }

RaceOptions == {"USB_UAS", "USB_HID"}

RaceValues == {"y", "n"}

\* a write of data at offset 0 of a file that holds cur: what lies beyond the
\* end of data stays
WriteAt0(cur, data) ==
    IF Len(cur) > Len(data) THEN data \o From(cur, Len(data) + 1) ELSE data

InitRace ==
    /\ \E t \in RaceTexts :
          fs = FileSystem(<<File(t), Missing, Missing, Missing, Missing, Missing>>,
                          Missing, Missing)
    /\ procs \in [RaceProcs -> {[pc |-> "plan", option |-> o, value |-> v,
                                 changes |-> <<>>, exit |-> -1] :
                                    o \in RaceOptions, v \in RaceValues}]
    /\ last = [cmd |-> "race", wrote |-> <<>>]
    /\ runs = 0
    /\ arg = NoArg
    /\ ret = NoRet

\* cmd_set up to the report: the files are read and the plan is computed;
\* with an empty plan the invocation returns 0
SetPlan(p) ==
    /\ procs[p].pc = "plan"
    /\ \E plan \in {PlanSet(fs, normalize_option(procs[p].option), procs[p].value,
                             "", "", "", "")} :
          procs' = [procs EXCEPT ![p] =
                       IF plan.changes = <<>>
                       THEN [@ EXCEPT !.pc = "done", !.exit = ExitStatus(plan)]
                       ELSE [@ EXCEPT !.pc = "open", !.changes = plan.changes]]
    /\ UNCHANGED <<fs, last, runs, arg, ret>>

\* path.write_text(new_text), first half: the file is opened for writing,
\* which truncates it
SetOpen(p) ==
    /\ procs[p].pc = "open"
    /\ fs' = [fs EXCEPT ![procs[p].changes[1].path] = File("")]
    /\ procs' = [procs EXCEPT ![p].pc = "write"]
    /\ UNCHANGED <<last, runs, arg, ret>>

\* path.write_text(new_text), second half: the text is written through the
\* invocation's own handle, at offset 0, and the handle is closed; after the
\* last record the invocation returns 0
SetWrite(p) ==
    /\ procs[p].pc = "write"
    /\ LET change == procs[p].changes[1]
           rest   == Tail(procs[p].changes)
       IN  /\ fs' = [fs EXCEPT ![change.path] = File(WriteAt0(fs[change.path].text, change.text))]
           /\ procs' = [procs EXCEPT ![p] =
                           IF rest = <<>>
                           THEN [@ EXCEPT !.pc = "done", !.changes = rest, !.exit = 0]
                           ELSE [@ EXCEPT !.pc = "open", !.changes = rest]]
           /\ last' = [last EXCEPT !.wrote = Append(@, [proc |-> p, path |-> change.path,
                                                         text |-> change.text])]
    /\ UNCHANGED <<runs, arg, ret>>

NextRace == \E p \in RaceProcs : SetPlan(p) \/ SetOpen(p) \/ SetWrite(p)

SpecRace == InitRace /\ [][NextRace]_vars

(***************************************************************************)
(* The track configs and policies reconcile is run on                      *)
(***************************************************************************)
ReconcileTracks ==
    { Missing,
      File("CONFIG_NET_FOO=y\nCONFIG_SKY1_FOO=y\n"),
      File("CONFIG_NET_FOO=n\nCONFIG_SKY1_FOO=n\n"),
      File("# CONFIG_NET_FOO is not set\nCONFIG_MY_CIX_DRV=m\nCONFIG_SKY1_FOO=y\n"),
      File("CONFIG_SKY1_FOO=y\n") }

ReconcilePolicies ==
    { Missing,
      File("[net]\nNET_FOO=y\n"),
      File("[net]\nNET_FOO = n\n"),
      File("# vendor first\n[sky1]\nsky1_foo=y\n\n[net]\nNET_FOO=y\n") }

\* a track with a comment and a quoted string that hold the text of a line
ReconcileNext ==
    "# was CONFIG_NET_FOO=n in 6.1\nCONFIG_NET_FOO=n\nCONFIG_SKY1_FOO=n\n"
    \o "CONFIG_CMDLINE=\"CONFIG_NET_FOO=n\"\n"

InitReconcile ==
    /\ \E lts \in ReconcileTracks, rc \in ReconcileTracks,
          latest \in {Missing, File("CONFIG_NET_FOO=y\nCONFIG_SKY1_FOO=y\n")},
          next \in {Missing, File(ReconcileNext)},
          policy \in ReconcilePolicies :
          fs = FileSystem(<<lts, latest, rc, next, Missing, Missing>>, policy, Missing)
    /\ last = NoLast
    /\ runs = 0
    /\ arg = NoArg
    /\ ret = NoRet
    /\ procs = NoProcs

NextReconcile == \E fix \in BOOLEAN, verbose \in BOOLEAN : CmdReconcile(fix, verbose)

SpecReconcile == InitReconcile /\ [][NextReconcile]_vars

(***************************************************************************)
(* The pairs of configs review is run on                                   *)
(***************************************************************************)
\* a config with eleven USB options, eleven crypto options, ten netfilter
\* options, a number and a quoted string
ReviewLarge ==
    "CONFIG_CC_VERSION_TEXT=\"gcc\"\nCONFIG_DRM_FOO=m\nCONFIG_HZ=250\n"
    \o "CONFIG_LOCALVERSION=\"-sky1\"\n# CONFIG_OLD is not set\n# CONFIG_STALE is not set\n"
    \o "CONFIG_USB_A=y\nCONFIG_USB_B=y\nCONFIG_USB_C=y\nCONFIG_USB_D=y\nCONFIG_USB_E=m\n"
    \o "CONFIG_USB_F=y\nCONFIG_USB_G=y\nCONFIG_USB_H=y\nCONFIG_USB_I=y\nCONFIG_USB_J=y\n"
    \o "CONFIG_USB_K=y\n"
    \o "CONFIG_CRYPTO_K=y\nCONFIG_CRYPTO_J=y\nCONFIG_CRYPTO_I=y\nCONFIG_CRYPTO_H=y\n"
    \o "CONFIG_CRYPTO_G=y\nCONFIG_CRYPTO_F=y\nCONFIG_CRYPTO_E=y\nCONFIG_CRYPTO_D=y\n"
    \o "CONFIG_CRYPTO_C=y\nCONFIG_CRYPTO_B=y\nCONFIG_CRYPTO_A=y\n"
    \o "CONFIG_NFT_A=y\nCONFIG_NFT_B=y\nCONFIG_NFT_C=y\nCONFIG_NFT_D=y\nCONFIG_NFT_E=y\n"
    \o "CONFIG_NFT_F=y\nCONFIG_NFT_G=y\nCONFIG_NFT_H=y\nCONFIG_NFT_I=y\nCONFIG_NFT_J=y\n"

ReviewConfigs ==
    { Missing,
      File("CONFIG_DRM_FOO=y\nCONFIG_ZED=m\n# CONFIG_OLD is not set\n"),
      File("CONFIG_DRM_FOO=y\nCONFIG_DRM_PANTHOR=y\nCONFIG_SKY1_FOO=y\nCONFIG_ZED=y\n"),
      File("CONFIG_CC_VERSION_TEXT=\"gcc\"\nCONFIG_DRM_PANTHOR=m\nCONFIG_NFT_X=y\n"),
      File("CONFIG_DRM_FOO=y\nCONFIG_CC_VERSION_TEXT=\"clang\"\n# CONFIG_OLD is not set\nCONFIG_SND_NEW=y\n"),
      File(ReviewLarge) }

ReviewPaths == {TRACK_CONFIGS[1], TRACK_CONFIGS[3]}

InitReview ==
    /\ \E old \in ReviewConfigs, new \in ReviewConfigs :
          fs = FileSystem(<<old, Missing, new, Missing, Missing, Missing>>, Missing, Missing)
    /\ last = NoLast
    /\ runs = 0
    /\ arg = NoArg
    /\ ret = NoRet
    /\ procs = NoProcs

NextReview == \E old_path \in ReviewPaths, new_path \in ReviewPaths : CmdReview(old_path, new_path)

SpecReview == InitReview /\ [][NextReview]_vars

(***************************************************************************)
(* Inputs of the text functions                                            *)
(***************************************************************************)
\* the lines of a file, each terminated by "\n"; an empty string is no line
RECURSIVE Cat(_)
Cat(lines) ==
    IF lines = <<>> THEN ""
    ELSE (IF lines[1] = "" THEN "" ELSE lines[1] \o NL) \o Cat(Tail(lines))

ConfigOptions == {"FOO", "FOO_BAR", "BAR", "foo"}

\* values as the command line gives them; "n" asks for the not-set form
ConfigValues == {"y", "m", "n", "0x10", "\"a=b\""}

\* config texts: FOO and FOO_BAR each absent, enabled or not set (an option
\* has at most one line per file), around lines that belong to neither
ConfigTexts ==
    {Cat(<<h, a, b, t>>) :
        h \in {"", "# Automatically generated file; DO NOT EDIT."},
        a \in {"", "CONFIG_FOO=y", "CONFIG_FOO=\"x y\"", "# CONFIG_FOO is not set"},
        b \in {"", "CONFIG_FOO_BAR=m", "# CONFIG_FOO_BAR is not set"},
        t \in {"", "CONFIG_CMDLINE=\"CONFIG_FOO=y\"", "# CONFIG_FOO=m", "XCONFIG_FOO=y"}}
    \cup {"CONFIG_FOO_BAR=y\nCONFIG_FOO=m", "CONFIG_FOO_BAR=y\n\n# CONFIG_FOO is not set\n\n"}

PolicyOptions == {"USB_UAS", "usb_uas", "NET_FOO"}

PolicyValues == {"m", "y", "n"}

PolicySections == {"usb", "net", "audio"}

PolicyTexts ==
    { "",
      "[usb]\n",
      "[usb]\nUSB_UAS=m\n",
      "[usb]\nUSB_STORAGE=y\n",
      "[usb]\nUSB_STORAGE=y\n\n[net]\nNET_FOO=y\n",
      "# policy\n[net]\nNET_FOO = n\n[usb]\n",
      "[net]\nUSB_UAS=y\n\n[usb]\nusb_uas=m\n",
      "[net]\n\n[usb]\n# storage\nUSB_STORAGE=y" }

ConfigCalls ==
    {[fn |-> "set_config_line", text |-> t, option |-> o, value |-> v, section |-> ""] :
        t \in ConfigTexts, o \in ConfigOptions, v \in ConfigValues}

PolicyCalls ==
    {[fn |-> "set_policy_entry", text |-> t, option |-> o, value |-> v, section |-> s] :
        t \in PolicyTexts, o \in PolicyOptions, v \in PolicyValues, s \in PolicySections}

RemoveTexts ==
    PolicyTexts \cup
        { "[usb]\n# USB_UAS=m\nUSB_UAS = m\n\n[net]\nusb_uas=y\nNET_FOO=y\n" }

RemoveCalls ==
    {[fn |-> "remove_policy_entry", text |-> t, option |-> o, value |-> "", section |-> ""] :
        t \in RemoveTexts, o \in PolicyOptions}

LookupCalls ==
    {[fn |-> "get_policy_entry", text |-> t, option |-> o, value |-> "", section |-> ""] :
        t \in RemoveTexts, o \in PolicyOptions}

\* a document from its lines, blank ones included, each terminated by "\n"
Doc(lines) == join(lines, NL) \o NL

ReadmeOptions == {"USB_UAS", "usb_uas"}

ReadmeHeadings == {"USB", "NET", "PCI"}

ReadmeDescs == {"UAS", "old"}

\* README texts: headings with and without a table, tables with and without
\* data rows, in the middle and at the end of the file, rows that hold the
\* option as their key or only mention it
ReadmeTexts ==
    { "",
      Doc(<<"## USB", "", "| O | T | D |", "|---|---|---|", "| 'USB_HID' | bool | HID |", "",
            "## NET", "", "| O | T | D |", "|---|---|---|", "| 'NET_FOO' | bool | foo |">>),
      Doc(<<"## USB", "", "no table yet", "",
            "## NET", "", "| O | T | D |", "|---|---|---|", "| 'NET_FOO' | bool | foo |">>),
      Doc(<<"## USB", "| O | T | D |", "|---|---|---|">>),
      Doc(<<"## USB", "| O | T | D |", "| --- | --- | --- |", "",
            "## NET", "| O | T | D |", "|---|---|---|", "| 'NET_FOO' | bool | foo |">>),
      Doc(<<"## NET", "| O | T | D |", "|---|---|---|", "| 'NET_FOO' | bool | foo |">>),
      Doc(<<"## USB", "| O | T | D |", "|---|---|---|", "| 'USB_HID' | bool | HID |">>),
      Doc(<<"## USB", "| O | T | D |", "|---|---|---|",
            "| 'USB_HID' | bool | see 'USB_UAS' |", "| 'USB_UAS' | module | old |">>),
      Doc(<<"## USB", "| O | T | D |", "|---|---|---|",
            "| 'USB_HID' | bool | HID |", "| 'USB_UAS' | module | UAS |", "", "the end">>),
      Doc(<<"## USB", "| O | T | D |", "|---|---|---|", "| 'usb_uas' | module | UAS |">>) }

ReadmeCalls ==
    {[fn |-> "add_readme_entry", text |-> t, option |-> o, heading |-> h,
      opt_type |-> "module", desc |-> d] :
        t \in ReadmeTexts, o \in ReadmeOptions, h \in ReadmeHeadings, d \in ReadmeDescs}

NoFs == <<>>

InitText ==
    /\ arg \in ConfigCalls \cup PolicyCalls \cup RemoveCalls \cup LookupCalls \cup ReadmeCalls
    /\ ret = NoRet
    /\ procs = NoProcs
    /\ fs = NoFs
    /\ last = NoLast
    /\ runs = 0

Call_set_config_line ==
    /\ arg.fn = "set_config_line"
    /\ ~ret.done
    /\ LET r == set_config_line(arg.text, arg.option, arg.value)
       IN  ret' = [done |-> TRUE, text |-> r.text, changed |-> r.changed]
    /\ UNCHANGED <<fs, last, runs, arg, procs>>

Call_set_policy_entry ==
    /\ arg.fn = "set_policy_entry"
    /\ ~ret.done
    /\ LET r == set_policy_entry(arg.text, arg.option, arg.value, arg.section)
       IN  ret' = [done |-> TRUE, text |-> r.text, changed |-> r.changed]
    /\ UNCHANGED <<fs, last, runs, arg, procs>>

Call_remove_policy_entry ==
    /\ arg.fn = "remove_policy_entry"
    /\ ~ret.done
    /\ LET r == remove_policy_entry(arg.text, arg.option)
       IN  ret' = [done |-> TRUE, text |-> r.text, changed |-> r.changed]
    /\ UNCHANGED <<fs, last, runs, arg, procs>>

\* get_policy_entry with the policy file holding arg.text
Call_get_policy_entry ==
    /\ arg.fn = "get_policy_entry"
    /\ ~ret.done
    /\ ret' = [done |-> TRUE, text |-> arg.text, changed |-> FALSE,
               entry |-> get_policy_entry(File(arg.text), arg.option)]
    /\ UNCHANGED <<fs, last, runs, arg, procs>>

Call_add_readme_entry ==
    /\ arg.fn = "add_readme_entry"
    /\ ~ret.done
    /\ LET r == add_readme_entry(arg.text, arg.option, arg.heading, arg.opt_type, arg.desc)
       IN  ret' = [done |-> TRUE, text |-> r.text, changed |-> r.changed]
    /\ UNCHANGED <<fs, last, runs, arg, procs>>

NextText ==
    \/ Call_set_config_line
    \/ Call_set_policy_entry
    \/ Call_remove_policy_entry
    \/ Call_get_policy_entry
    \/ Call_add_readme_entry

SpecText == InitText /\ [][NextText]_vars

(***************************************************************************)
(* Properties of the set and remove commands (under Spec)                  *)
(***************************************************************************)
\* C1: set and remove without --apply write no file: every track config, dev
\* copy, the policy file and the README have the same content after the
\* command as before, whatever the size of the plan.
C1_DryRunWritesNothing ==
    (last.cmd \in {"set", "remove"} /\ ~last.apply) => fs = last.before

C1_Witness ==
    /\ last.cmd = "set"
    /\ ~last.apply
    /\ last.outcome = "dryrun"
    /\ Len(last.changes) >= 5
    /\ fs = last.before

\* C2: set O=V --apply run twice with the same arguments: the second run
\* computes no ChangeRecord, reports that nothing is needed, writes nothing
\* and leaves every file as the first run left it.
C2_SetTwiceIdempotent ==
    [][(/\ last.cmd = "set"
        /\ last.apply
        /\ last'.cmd = "set"
        /\ last'.apply
        /\ last'.args = last.args)
       => (/\ last'.changes = <<>>
           /\ last'.outcome = "nothing"
           /\ fs' = fs)]_vars

\* C13: remove never changes a track config or a dev copy: whatever --policy,
\* --doc and --apply are, its plan holds ChangeRecords only for the policy
\* file and the README, and every config file keeps its content.
C13_RemoveLeavesConfigs ==
    last.cmd = "remove" =>
        /\ \A k \in 1..Len(last.changes) : last.changes[k].path \in {POLICY_FILE, README_FILE}
        /\ \A p \in Range(TRACK_CONFIGS) \cup Range(DEV_CONFIGS) : fs[p] = last.before[p]

C13_Witness ==
    /\ last.cmd = "remove"
    /\ last.apply
    /\ last.outcome = "applied"
    /\ Len(last.changes) = 2
    /\ fs[POLICY_FILE] # last.before[POLICY_FILE]
    /\ fs[README_FILE] # last.before[README_FILE]
    /\ \E p \in Range(TRACK_CONFIGS) : contains(fs[p].text, "CONFIG_USB_UAS=")
    /\ \E p \in Range(DEV_CONFIGS) : fs[p].exists

\* the ChangeRecord set plans for a config file: the file exists and holds a
\* line of the option that differs from the requested one
PlansConfig(p) ==
    LET r == set_config_line(last.before[p].text, normalize_option(last.args[1]), last.args[2])
    IN  last.before[p].exists /\ r.changed

\* C14: a policy file, README or track file that does not exist contributes
\* no change and is not fatal for show, set and remove: the command exits 0,
\* and set still plans, and with --apply writes, the changes of the config
\* files that exist.
C14_MissingFilesNotFatal ==
    (last.cmd \in {"show", "set", "remove"} /\ last.outcome # "failed") =>
        /\ last.exit = 0
        /\ last.outcome # "crash"
        /\ last.cmd = "set" =>
              \A p \in Range(TRACK_CONFIGS) \cup Range(DEV_CONFIGS) :
                  PlansConfig(p) =>
                      /\ \E k \in 1..Len(last.changes) : last.changes[k].path = p
                      /\ last.apply => fs[p] # last.before[p]

\* the lines of the option named on the last set command line in file p of
\* the file system the command started on
OptionLines(p) ==
    LET key   == "CONFIG_" \o removeprefix(last.args[1], "CONFIG_")
        lines == splitlines(last.before[p].text)
    IN  {lines[i] : i \in {j \in 1..Len(lines) :
                              \/ startswith(lines[j], key \o "=")
                              \/ lines[j] = "# " \o key \o " is not set"}}

\* the line the last set command asks for
RequestedLine ==
    LET key == "CONFIG_" \o removeprefix(last.args[1], "CONFIG_")
    IN  IF last.args[2] = "n" THEN "# " \o key \o " is not set"
        ELSE key \o "=" \o last.args[2]

\* C16: in set, an option absent from some files never aborts the plan: the
\* plan has a ChangeRecord for exactly the existing track configs and dev
\* copies that hold the option with a line other than the requested one, a
\* warning is given for exactly the existing track configs that lack the
\* option (never for a dev copy), and the command exits 0.
C16_AbsentOptionNotFatal ==
    (last.cmd = "set" /\ last.outcome # "failed") =>
        /\ {last.changes[k].path : k \in 1..Len(last.changes)} \ {POLICY_FILE, README_FILE}
              = {p \in Range(TRACK_CONFIGS) \cup Range(DEV_CONFIGS) :
                    /\ last.before[p].exists
                    /\ OptionLines(p) # {}
                    /\ OptionLines(p) # {RequestedLine}}
        /\ Range(last.warnings)
              = {p \in Range(TRACK_CONFIGS) : last.before[p].exists /\ OptionLines(p) = {}}
        /\ last.exit = 0

(***************************************************************************)
(* Properties of reconcile (under SpecReconcile)                           *)
(***************************************************************************)
ReconcileRan == last.cmd = "reconcile" /\ last.outcome # "crash"

\* the track files that existed when the last command started
TracksBefore == {i \in 1..Len(TRACKS) : last.before[TRACKS[i].file].exists}

ConfigBefore(i) == parse_config(last.before[TRACKS[i].file].text)

ConfigAfter(i) == parse_config(fs[TRACKS[i].file].text)

PolicyBefore == parse_policy(last.before[POLICY_FILE]).policy

\* the recorded violations of option opt in track number i
ViolationsAt(opt, i) ==
    {k \in 1..Len(last.violations) :
        last.violations[k].opt = opt /\ last.violations[k].file = TRACKS[i].file}

\* one violation of the right kind when the option is absent (MISSING) or
\* has another value (MISMATCH), none when the value is the required one
ExactlyTheViolations ==
    \A opt \in DOMAIN PolicyBefore : \A i \in TracksBefore :
        LET at == ViolationsAt(opt, i)
        IN  IF opt \notin DOMAIN ConfigBefore(i)
            THEN Cardinality(at) = 1 /\ \A k \in at : last.violations[k].kind = "MISSING"
            ELSE IF ConfigBefore(i)[opt] # PolicyBefore[opt]
            THEN Cardinality(at) = 1 /\ \A k \in at : last.violations[k].kind = "MISMATCH"
            ELSE at = {}

TrackNumber(file) == CHOOSE i \in 1..Len(TRACKS) : TRACKS[i].file = file

\* by option name, then by track declaration order
ViolationsOrdered ==
    \A j, k \in 1..Len(last.violations) :
        j < k =>
            \/ StrLess(last.violations[j].opt, last.violations[k].opt)
            \/ /\ last.violations[j].opt = last.violations[k].opt
               /\ TrackNumber(last.violations[j].file) < TrackNumber(last.violations[k].file)

\* C7 as stated: for every policy entry and every existing track, whatever
\* the number of loaded tracks (one or more), exactly one violation is
\* recorded when the option is absent or differs, none when it matches,
\* listed by option name and then by track declaration order.
C7_ViolationsAnyTrackCount ==
    ReconcileRan => ExactlyTheViolations /\ ViolationsOrdered

\* C7 amended: the same when at least two track files exist; with fewer,
\* reconcile stops before the policy check and records no violation.
C7_ViolationsTwoTracks ==
    ReconcileRan =>
        IF Cardinality(TracksBefore) >= 2
        THEN ExactlyTheViolations /\ ViolationsOrdered
        ELSE last.violations = <<>> /\ last.outcome = "need2"

C7_Witness ==
    /\ ReconcileRan
    /\ Cardinality(TracksBefore) >= 3
    /\ Len(last.violations) >= 4
    /\ \E k \in 1..Len(last.violations) : last.violations[k].kind = "MISSING"
    /\ \E k \in 1..Len(last.violations) : last.violations[k].kind = "MISMATCH"
    /\ last.violations[1].opt # last.violations[Len(last.violations)].opt

\* C8: reconcile --fix never creates a line for a missing option and does not
\* write a track whose only violations are MISSING; with policy NET_FOO=y,
\* LTS lacking the option and RC holding CONFIG_NET_FOO=n, two violations are
\* reported and only RC changes, its line becoming CONFIG_NET_FOO=y.
C8_Scenario ==
    /\ last.before[POLICY_FILE] = File("[net]\nNET_FOO=y\n")
    /\ last.before[TRACKS[1].file] = File("CONFIG_SKY1_FOO=y\n")
    /\ last.before[TRACKS[3].file] = File("CONFIG_NET_FOO=n\nCONFIG_SKY1_FOO=n\n")
    /\ TracksBefore = {1, 3}

C8_FixNeverCreatesLine ==
    (ReconcileRan /\ last.fix) =>
        /\ \A i \in TracksBefore :
              /\ \A opt \in DOMAIN PolicyBefore :
                    opt \notin DOMAIN ConfigBefore(i) => opt \notin DOMAIN ConfigAfter(i)
              /\ (\A k \in 1..Len(last.violations) :
                     last.violations[k].file = TRACKS[i].file
                         => last.violations[k].kind = "MISSING")
                    => /\ fs[TRACKS[i].file] = last.before[TRACKS[i].file]
                       /\ \A k \in 1..Len(last.fixes) : last.fixes[k].file # TRACKS[i].file
        /\ C8_Scenario =>
              /\ Len(last.violations) = 2
              /\ last.violations[1].kind = "MISSING" /\ last.violations[1].label = "LTS"
              /\ last.violations[2].kind = "MISMATCH" /\ last.violations[2].label = "RC"
              /\ fs = [last.before EXCEPT ![TRACKS[3].file] =
                          File("CONFIG_NET_FOO=y\nCONFIG_SKY1_FOO=n\n")]

C8_Witness ==
    /\ ReconcileRan
    /\ last.fix
    /\ C8_Scenario
    /\ fs[TRACKS[1].file] = File("CONFIG_SKY1_FOO=y\n")
    /\ fs[TRACKS[3].file] = File("CONFIG_NET_FOO=y\nCONFIG_SKY1_FOO=n\n")

\* a violation is unresolved unless --fix was given and replaced its line
Unresolved ==
    {k \in 1..Len(last.violations) :
        ~(/\ last.fix
          /\ \E j \in 1..Len(last.fixes) :
                /\ last.fixes[j].file = last.violations[k].file
                /\ last.fixes[j].opt = last.violations[k].opt)}

\* C9: the exit status of reconcile is non-zero whenever an unresolved
\* violation remains (without --fix: any violation; with --fix: any violation
\* that was not actually fixed), and 0 only when none remains.
C9_ExitTellsUnresolved ==
    ReconcileRan => (last.exit # 0 <=> Unresolved # {})

\* the bare name holds a vendor marker somewhere
HasVendorMarker(opt) ==
    LET name == removeprefix(opt, "CONFIG_")
    IN  \E m \in {"CIX", "SKY1", "LINLON", "TRILIN", "PANTHOR", "ARMCHINA", "CDNSP_SKY1"} :
            \E i \in 1..(Len(name) - Len(m) + 1) : SubSeq(name, i, i + Len(m) - 1) = m

\* the values of opt over the loaded tracks, "-" for a track that lacks it
ValuesAcrossTracks(opt) ==
    {IF opt \in DOMAIN ConfigBefore(i) THEN ConfigBefore(i)[opt] ELSE "-" : i \in TracksBefore}

FlaggedDivergent(opt) ==
    \E k \in 1..Len(last.divergent) : last.divergent[k].opt = opt /\ last.divergent[k].marker

\* C10: an option that occurs in some loaded track and whose bare name holds
\* a vendor marker anywhere is flagged DIVERGENT exactly when its per-track
\* values ("-" for a track lacking it) have more than one member.
C10_DivergentIffValuesDiffer ==
    ReconcileRan =>
        \A i \in TracksBefore : \A opt \in DOMAIN ConfigBefore(i) :
            HasVendorMarker(opt) =>
                (FlaggedDivergent(opt) <=> Cardinality(ValuesAcrossTracks(opt)) > 1)

C10_Witness ==
    /\ ReconcileRan
    /\ ~last.verbose
    /\ Cardinality(TracksBefore) = 3
    /\ FlaggedDivergent("CONFIG_MY_CIX_DRV")
    /\ ValuesAcrossTracks("CONFIG_MY_CIX_DRV") = {"m", "-"}
    /\ ValuesAcrossTracks("CONFIG_SKY1_FOO") = {"y"}
    /\ ~FlaggedDivergent("CONFIG_SKY1_FOO")

(***************************************************************************)
(* Properties of review (under SpecReview)                                 *)
(***************************************************************************)
\* the categories under which the last review printed the added option opt
SectionsOf(opt) ==
    {last.sections[k].cat : k \in {j \in 1..Len(last.sections) :
        \E n \in 1..Len(last.sections[j].items) : last.sections[j].items[n].opt = opt}}

\* C11: in review, an added option whose bare name starts with a generic
\* prefix and also holds a vendor marker (CONFIG_DRM_PANTHOR) is printed under
\* "Sky1", the first priority slot, not under the generic category.
C11_MarkerBeforePrefix ==
    (last.cmd = "review" /\ last.outcome = "done") =>
        \A opt \in DOMAIN last.added :
            HasVendorMarker(opt) => SectionsOf(opt) = {"Sky1"}

(***************************************************************************)
(* Properties of set_config_line (under SpecText)                          *)
(***************************************************************************)
\* line is the enabled line or the not-set line of option
IsLineOf(line, option) ==
    \/ startswith(line, "CONFIG_" \o option \o "=")
    \/ line = "# CONFIG_" \o option \o " is not set"

HasLineOf(text, option) ==
    \E i \in 1..Len(split(text, NL)) : IsLineOf(split(text, NL)[i], option)

SetConfigLineDone == arg.fn = "set_config_line" /\ ret.done

C5_AbsentStaysAbsent ==
    (SetConfigLineDone /\ ~HasLineOf(arg.text, arg.option)) =>
        /\ ret.text = arg.text
        /\ ~ret.changed
        /\ ~HasLineOf(ret.text, arg.option)

C5_Witness ==
    /\ SetConfigLineDone
    /\ arg.option = "FOO"
    /\ arg.value = "n"
    /\ arg.text = "CONFIG_FOO_BAR=m\n# CONFIG_FOO=m\n"
    /\ ~ret.changed

(***************************************************************************)
(* Properties of set_policy_entry (under SpecText)                         *)
(***************************************************************************)
SetPolicyEntryDone == arg.fn = "set_policy_entry" /\ ret.done

\* C6: a new option set into the existing, empty section "[usb]\n" gives
\* exactly "[usb]\nUSB_UAS=m\n": no second header, no blank line.
C6_EmptySectionInsertion ==
    (/\ SetPolicyEntryDone
     /\ arg.text = "[usb]\n"
     /\ arg.option = "USB_UAS"
     /\ arg.value = "m"
     /\ arg.section = "usb") => ret.text = "[usb]\nUSB_UAS=m\n"

(***************************************************************************)
(* Properties of add_readme_entry (under SpecText)                         *)
(***************************************************************************)
AddReadmeEntryDone == arg.fn = "add_readme_entry" /\ ret.done

ArgLines == splitlines(arg.text)

RetLines == splitlines(ret.text)

\* the row add_readme_entry writes for its arguments
ArgRow == "| '" \o arg.option \o "' | " \o arg.opt_type \o " | " \o arg.desc \o " |"

\* the table rows that hold the quoted option name somewhere
RowsNaming == {i \in 1..Len(ArgLines) :
                  /\ startswith(ArgLines[i], "|")
                  /\ contains(ArgLines[i], "'" \o arg.option \o "'")}

\* the line of the target heading, 0 when the document has no such heading
HeadingLine ==
    LET hs == {i \in 1..Len(ArgLines) : strip(ArgLines[i]) = "## " \o arg.heading}
    IN  IF hs = {} THEN 0 ELSE Min(hs)

\* the last line of the target heading's own section: the line before the
\* next heading, or the last line of the document
SectionEnd ==
    LET next == {i \in (HeadingLine + 1)..Len(ArgLines) : startswith(ArgLines[i], "#")}
    IN  IF next = {} THEN Len(ArgLines) ELSE Min(next) - 1

\* the header-separator row of the table in the heading's own section, 0 when
\* the section has no table
SeparatorLine ==
    LET seps == {i \in (HeadingLine + 1)..SectionEnd :
                    startswith(ArgLines[i], "|---") \/ startswith(ArgLines[i], "| ---")}
    IN  IF HeadingLine = 0 \/ seps = {} THEN 0 ELSE Min(seps)

\* C12: for an option with no existing row, add_readme_entry is a no-op when
\* the target heading does not exist or its own section (up to the next
\* heading) has no table; the row never goes into a later heading's table.
C12_NoTableNoOp ==
    (AddReadmeEntryDone /\ RowsNaming = {} /\ SeparatorLine = 0)
        => (ret.text = arg.text /\ ~ret.changed)

(***************************************************************************)
(* Properties of --apply (under SpecApply)                                 *)
(***************************************************************************)
\* the place of a file in the plan order: track configs in declaration
\* order, then dev copies, then the policy file, then the README
PlanRank(p) ==
    IF p = "config/config.sky1" THEN 1
    ELSE IF p = "config/config.sky1-latest" THEN 2
    ELSE IF p = "config/config.sky1-rc" THEN 3
    ELSE IF p = "config/config.sky1-next" THEN 4
    ELSE IF p = "mainline-linux/config.sky1" THEN 5
    ELSE IF p = "mainline-linux/config.sky1-rc" THEN 6
    ELSE IF p = "config/config-policy.ini" THEN 7
    ELSE 8

Written(k) == fs[last.changes[k].path] = [exists |-> TRUE, text |-> last.changes[k].text]

Untouched(k) == fs[last.changes[k].path] = last.before[last.changes[k].path]

\* C15: with --apply the records are written in plan order, each file getting
\* exactly its recorded text; when the write of record k fails, the failure
\* is surfaced, the records after k keep their old content and the records
\* before k keep their new content.
C15_ApplyInPlanOrder ==
    (last.cmd \in {"set", "remove"} /\ last.apply /\ last.outcome \in {"applied", "failed"}) =>
        /\ \A j, k \in 1..Len(last.changes) :
              j < k => PlanRank(last.changes[j].path) < PlanRank(last.changes[k].path)
        /\ \A p \in DOMAIN fs :
              (\A k \in 1..Len(last.changes) : last.changes[k].path # p) => fs[p] = last.before[p]
        /\ last.outcome = "applied" => \A k \in 1..Len(last.changes) : Written(k)
        /\ last.outcome = "failed" =>
              /\ last.exit # 0
              /\ \A k \in 1..Len(last.changes) :
                    /\ k < last.failed => Written(k)
                    /\ k > last.failed => Untouched(k)

C15_Witness ==
    /\ last.cmd = "set"
    /\ last.outcome = "failed"
    /\ last.failed = 2
    /\ Len(last.changes) >= 4
    /\ Written(1) /\ ~Untouched(1)
    /\ Untouched(3) /\ ~Written(3)

\* the table rows whose first cell is the quoted option name
RowsKeyed == {i \in 1..Len(ArgLines) : startswith(ArgLines[i], "| '" \o arg.option \o "' |")}

\* the same, letter case ignored
RowsKeyedAnyCase ==
    {i \in 1..Len(ArgLines) :
        startswith(upper(ArgLines[i]), "| '" \o upper(arg.option) \o "' |")}

\* the last row of the table under the target heading: the rows run from the
\* header-separator row to the last line of the unbroken run of "|" lines
LastTableRow ==
    LET run == {i \in SeparatorLine..Len(ArgLines) :
                   \A j \in SeparatorLine..i : startswith(ArgLines[j], "|")}
    IN  CHOOSE i \in run : \A j \in run : j <= i

\* C18: for an option with no row, when the target heading has a table,
\* add_readme_entry puts the new row right after the table's last row (after
\* the header-separator row of a table without data rows, also when the table
\* ends the file), returns changed=true and keeps all other lines in order.
C18_RowAfterLastRow ==
    (AddReadmeEntryDone /\ RowsNaming = {} /\ RowsKeyedAnyCase = {} /\ SeparatorLine # 0) =>
        /\ ret.changed
        /\ RetLines = SubSeq(ArgLines, 1, LastTableRow) \o <<ArgRow>>
                         \o SubSeq(ArgLines, LastTableRow + 1, Len(ArgLines))

\* C19: when a row keyed by the quoted option name exists, add_readme_entry
\* rewrites exactly that row with the new type and description, adds no row
\* and changes no other line, in particular no row keyed by another option;
\* when the row already equals the new row it returns changed=false.
C19_KeyedRowRewritten ==
    (AddReadmeEntryDone /\ RowsKeyed # {}) =>
        LET k == Min(RowsKeyed)
        IN  IF strip(ArgLines[k]) = ArgRow
            THEN ret.text = arg.text /\ ~ret.changed
            ELSE ret.changed /\ RetLines = [ArgLines EXCEPT ![k] = ArgRow]

(***************************************************************************)
(* Properties of key matching (under SpecText)                             *)
(***************************************************************************)
\* the policy lines that are an entry of the option, letter case ignored
PolicyEntriesAnyCase ==
    LET lines == splitlines(arg.text)
    IN  {i \in 1..Len(lines) :
            \/ startswith(upper(strip(lines[i])), upper(arg.option) \o "=")
            \/ startswith(upper(strip(lines[i])), upper(arg.option) \o " =")}

\* C17: the policy store and the documentation store match the option name
\* without regard to letter case (an entry or row whose key differs only in
\* case is found and rewritten, none is added), config files match it exactly
\* (a line whose key differs in case is left alone).
C17_KeyMatching ==
    /\ (SetPolicyEntryDone /\ PolicyEntriesAnyCase # {})
          => Len(splitlines(ret.text)) = Len(splitlines(arg.text))
    /\ (AddReadmeEntryDone /\ RowsKeyedAnyCase # {})
          => Len(RetLines) = Len(ArgLines)
    /\ (SetConfigLineDone /\ ~HasLineOf(arg.text, arg.option))
          => (ret.text = arg.text /\ ~ret.changed)

(***************************************************************************)
(* Properties of set_policy_entry on an existing entry (under SpecText)    *)
(***************************************************************************)
\* C20: when the option has an entry in any section, set_policy_entry rewrites
\* the line of that entry in place to OPTION=value whatever the section
\* argument is: the line count is the same, every other line (headers
\* included) is unchanged, nothing is added to the named section, and
\* changed=false is returned when the line already is OPTION=value.
C20_ExistingEntryInPlace ==
    (SetPolicyEntryDone /\ PolicyEntriesAnyCase # {}) =>
        LET before == splitlines(arg.text)
            after  == splitlines(ret.text)
            k      == Min(PolicyEntriesAnyCase)
            want   == upper(arg.option) \o "=" \o arg.value
        IN  /\ Len(after) = Len(before)
            /\ after[k] = want
            /\ \A i \in 1..Len(before) : i # k => after[i] = before[i]
            /\ strip(before[k]) = want => (~ret.changed /\ ret.text = arg.text)

C20_Witness ==
    /\ SetPolicyEntryDone
    /\ arg.text = "[net]\nUSB_UAS=y\n\n[usb]\nusb_uas=m\n"
    /\ arg.option = "usb_uas"
    /\ arg.value = "m"
    /\ arg.section = "usb"
    /\ ret.changed
    /\ ret.text = "[net]\nUSB_UAS=m\n\n[usb]\nusb_uas=m\n"

(***************************************************************************)
(* Properties of set_policy_entry on a new entry (under SpecText)          *)
(***************************************************************************)
\* the lines that are the header of the section named in the call
HeaderLines ==
    LET lines == splitlines(arg.text)
    IN  {i \in 1..Len(lines) : strip(lines[i]) = "[" \o arg.section \o "]"}

\* the first line after the section's header that is blank or a header, one
\* past the last line when there is none: the place of the section's new entry
SectionClose ==
    LET lines == splitlines(arg.text)
        ends  == {i \in (Min(HeaderLines) + 1)..Len(lines) :
                     strip(lines[i]) = "" \/ startswith(strip(lines[i]), "[")}
    IN  IF ends = {} THEN Len(lines) + 1 ELSE Min(ends)

\* C21: for an option with no entry, set_policy_entry adds exactly one line
\* OPTION=value: as the last entry of the section when its header exists (no
\* header is added), after a new header at the end of the file only when no
\* such header exists; the old lines keep content and order, and a lookup of
\* the option in the result gives (section, value).
C21_NewEntryInSection ==
    (SetPolicyEntryDone /\ PolicyEntriesAnyCase = {}) =>
        LET before == splitlines(arg.text)
            after  == splitlines(ret.text)
            want   == upper(arg.option) \o "=" \o arg.value
            header == "[" \o arg.section \o "]"
        IN  /\ ret.changed
            /\ IF HeaderLines # {}
               THEN after = SubSeq(before, 1, SectionClose - 1) \o <<want>>
                               \o SubSeq(before, SectionClose, Len(before))
               ELSE after \in {before \o <<header, want>>, before \o <<"", header, want>>}
            /\ get_policy_entry([exists |-> TRUE, text |-> ret.text], arg.option)
                  = [found |-> TRUE, section |-> arg.section, value |-> arg.value]

(***************************************************************************)
(* Properties of remove_policy_entry (under SpecText)                      *)
(***************************************************************************)
RemovePolicyEntryDone == arg.fn = "remove_policy_entry" /\ ret.done

\* the lines of the text that are not an entry of the option, in order
LinesKept ==
    LET lines == splitlines(arg.text)
        Other(i) == i \notin PolicyEntriesAnyCase
        RECURSIVE Pick(_)
        Pick(i) == IF i > Len(lines) THEN <<>>
                   ELSE (IF Other(i) THEN <<lines[i]>> ELSE <<>>) \o Pick(i + 1)
    IN  Pick(1)

\* C22: remove_policy_entry deletes every entry line keyed by the option,
\* letter case ignored, in all sections, keeps every other line with its
\* content and order (a text left without any line is returned as one empty
\* line), returns changed exactly when a line was deleted; afterwards a lookup
\* of the option finds nothing and a second remove changes nothing.
C22_RemoveDeletesAllEntries ==
    RemovePolicyEntryDone =>
        LET after == splitlines(ret.text)
            again == remove_policy_entry(ret.text, arg.option)
        IN  /\ after = (IF LinesKept = <<>> THEN <<"">> ELSE LinesKept)
            /\ ret.changed = (PolicyEntriesAnyCase # {})
            /\ ~get_policy_entry([exists |-> TRUE, text |-> ret.text], arg.option).found
            /\ ~again.changed
            /\ again.text = ret.text

\* the option was entered in two sections and both entries are gone
C22_Witness ==
    /\ RemovePolicyEntryDone
    /\ Cardinality(PolicyEntriesAnyCase) = 2
    /\ ret.changed
    /\ Len(splitlines(ret.text)) = Len(splitlines(arg.text)) - 2
    /\ \E i \in 1..Len(splitlines(ret.text)) : splitlines(ret.text)[i] = "# USB_UAS=m"

(***************************************************************************)
(* Properties of the review report (under SpecReview)                      *)
(***************************************************************************)
ReviewDone == last.cmd = "review" /\ last.outcome = "done"

\* the old and the new config of the last review, as parsed
ReviewOld == parse_config(last.before[last.old_path].text)

ReviewNew == parse_config(last.before[last.new_path].text)

\* the line KEY=value of the option matches a volatile ignore pattern
Volatile(key, value) ==
    \E i \in 1..Len(IGNORE_PATTERNS) : startswith(key \o "=" \o value, IGNORE_PATTERNS[i])

\* C23: in review, added is exactly the keys in new and not in old, removed
\* the keys in old and not in new, changed the keys in both with different
\* values, each without the options whose KEY=value line is volatile (for
\* changed, the line of the old value); each carries the values of its
\* config, the three sets are pairwise disjoint and the summary counts are
\* their sizes.
C23_ReviewSets ==
    ReviewDone =>
        LET old == ReviewOld
            new == ReviewNew
            A == {k \in DOMAIN new : k \notin DOMAIN old /\ ~Volatile(k, new[k])}
            R == {k \in DOMAIN old : k \notin DOMAIN new /\ ~Volatile(k, old[k])}
            C == {k \in DOMAIN old \cap DOMAIN new : old[k] # new[k] /\ ~Volatile(k, old[k])}
        IN  /\ DOMAIN last.added = A
            /\ DOMAIN last.removed = R
            /\ DOMAIN last.changed = C
            /\ \A k \in A : last.added[k] = new[k]
            /\ \A k \in R : last.removed[k] = old[k]
            /\ \A k \in C : last.changed[k] = [old |-> old[k], new |-> new[k]]
            /\ A \cap R = {} /\ A \cap C = {} /\ R \cap C = {}
            /\ last.summary = [added   |-> Cardinality(A),
                               removed |-> Cardinality(R),
                               changed |-> Cardinality(C)]

\* a review with options added, removed and changed, options common to both
\* configs with equal values, and a volatile option left out of each set
C23_Witness ==
    /\ ReviewDone
    /\ last.summary.added > 0 /\ last.summary.removed > 0 /\ last.summary.changed > 0
    /\ \E k \in DOMAIN ReviewOld \cap DOMAIN ReviewNew : ReviewOld[k] = ReviewNew[k]
    /\ \E k \in DOMAIN ReviewOld \cap DOMAIN ReviewNew :
           ReviewOld[k] # ReviewNew[k] /\ Volatile(k, ReviewOld[k])

\* C24: in the report of added options every category bucket with more than
\* ten entries, the priority categories included, is cut to its first five
\* entries followed by the count of the remaining ones, and every bucket with
\* at most ten entries is listed in full.
C24_LargeBucketsTruncated ==
    ReviewDone =>
        \A k \in 1..Len(last.sections) :
            LET sec == last.sections[k]
            IN  IF Len(sec.items) > 10
                THEN sec.shown = SubSeq(sec.items, 1, 5) /\ sec.more = Len(sec.items) - 5
                ELSE sec.shown = sec.items /\ sec.more = 0

\* C25: in the report every removed option is in exactly one of two groups,
\* "previously enabled" when its old value is a literal (y, m, a number, a
\* quoted string) and "previously disabled" when it was not set; the sizes of
\* the two groups sum to the number of removed options.
C25_RemovedSplitInTwo ==
    ReviewDone =>
        LET enabled == {last.was_enabled[i].opt : i \in 1..Len(last.was_enabled)}
        IN  /\ enabled = {k \in DOMAIN last.removed : last.removed[k] # "n"}
            /\ last.was_disabled = Cardinality({k \in DOMAIN last.removed : last.removed[k] = "n"})
            /\ Len(last.was_enabled) + last.was_disabled = Cardinality(DOMAIN last.removed)

(***************************************************************************)
(* Properties of concurrent set --apply (under SpecRace)                   *)
(***************************************************************************)
RaceOver == \A p \in RaceProcs : procs[p].pc = "done"

\* C26: when two set --apply invocations race on one track file, neither
\* fails, and once both are over the file holds exactly the replacement text
\* of the invocation that wrote last.
C26_LastWriterWins ==
    (last.cmd = "race" /\ RaceOver) =>
        /\ \A p \in RaceProcs : procs[p].exit = 0
        /\ last.wrote # <<>> =>
              fs[TRACK_CONFIGS[1]] = File(last.wrote[Len(last.wrote)].text)

(***************************************************************************)
(* Properties of reconcile --fix (under SpecReconcile)                     *)
(***************************************************************************)
FixRan == ReconcileRan /\ last.fix /\ last.outcome = "done"

\* C27: reconcile --fix resolves every MISMATCH: an option of the policy that
\* a track holds with another value, as a KEY=value line or as a not-set
\* line, has the required value when the track is parsed again after --fix,
\* so that a following run finds no MISMATCH.
C27_FixResolvesMismatch ==
    FixRan =>
        \A i \in TracksBefore : \A opt \in DOMAIN PolicyBefore :
            opt \in DOMAIN ConfigBefore(i) =>
                /\ opt \in DOMAIN ConfigAfter(i)
                /\ ConfigAfter(i)[opt] = PolicyBefore[opt]

\* the options of the policy track number i held with another value
Mismatching(i) ==
    {opt \in DOMAIN PolicyBefore :
        opt \in DOMAIN ConfigBefore(i) /\ ConfigBefore(i)[opt] # PolicyBefore[opt]}

\* C28: reconcile --fix changes only the lines of options with a MISMATCH: in
\* every track, a line that is not the KEY=value line of a mismatching policy
\* option is the same before and after --fix; so are comment lines and
\* quoted strings that hold the text KEY=oldvalue.
C28_FixTouchesOnlyMismatchLines ==
    FixRan =>
        \A i \in TracksBefore :
            LET before == splitlines(last.before[TRACKS[i].file].text)
                after  == splitlines(fs[TRACKS[i].file].text)
            IN  /\ Len(after) = Len(before)
                /\ \A n \in 1..Len(before) :
                      \/ after[n] = before[n]
                      \/ \E opt \in Mismatching(i) :
                            before[n] = opt \o "=" \o ConfigBefore(i)[opt]

(***************************************************************************)
(* The policy as looked up and as enforced (under SpecText)                *)
(***************************************************************************)
GetPolicyEntryDone == arg.fn = "get_policy_entry" /\ ret.done

\* the policy reconcile enforces when the policy file holds the text looked up
Enforced == parse_policy(File(arg.text))

\* C29: the policy read by show/set and the policy enforced by reconcile
\* agree: when get_policy_entry returns (section, value) for an option,
\* parse_policy maps CONFIG_<OPTION> to that value, also when the option is
\* entered in more than one section; when the lookup returns none the option
\* is not enforced.
C29_LookupAgreesWithEnforced ==
    GetPolicyEntryDone =>
        LET key == CONFIG_ \o upper(arg.option)
        IN  IF ret.entry.found
            THEN /\ ~Enforced.error
                 /\ key \in DOMAIN Enforced.policy
                 /\ Enforced.policy[key] = ret.entry.value
            ELSE key \notin DOMAIN Enforced.policy

(***************************************************************************)
(* Properties of show (under SpecShow)                                     *)
(***************************************************************************)
\* the lines show printed for the track configs and the dev copies
ShownLines == last.tracks \o last.devs

\* the numbers of the lines of the file that are the option's enabled line
\* (KEY=value, any value) or its not-set line
LinesOfOption(path, key) ==
    LET lines == splitlines(last.before[path].text)
    IN  {n \in 1..Len(lines) :
            startswith(lines[n], key \o "=") \/ lines[n] = "# " \o key \o " is not set"}

\* C30: show keeps the three states apart: for every track config and dev
\* copy it prints "(not found)" exactly when the file has neither an enabled
\* nor a not-set line of the option, the not-set line exactly when the option
\* is not set, and KEY=value for an enabled line whatever the value, the empty
\* value included; it exits 0.
C30_ShowKeepsTriState ==
    (last.cmd = "show") =>
        /\ last.exit = 0
        /\ {ShownLines[k].path : k \in 1..Len(ShownLines)}
              = {p \in Range(TRACK_CONFIGS) \cup Range(DEV_CONFIGS) : last.before[p].exists}
        /\ \A k \in 1..Len(ShownLines) :
              LET key   == CONFIG_ \o normalize_option(last.args[1])
                  path  == ShownLines[k].path
                  lines == splitlines(last.before[path].text)
                  hits  == LinesOfOption(path, key)
              IN  IF hits = {} THEN ShownLines[k].display = "(not found)"
                  ELSE ShownLines[k].display = lines[Min(hits)]

====
